---- MODULE Spec2Model ----
(***************************************************************************)
(* Scorecard backend: the metric providers registry, the metric value      *)
(* store, the catalog metric service (drill-down, latest metrics,          *)
(* aggregation) and the visible-entity lookup of the permission utilities. *)
(*                                                                         *)
(* Strings that the code inspects character by character (entity refs,     *)
(* metric ids, names, owners, kinds) are tuples of one-character strings;  *)
(* enumerations (status, sortBy, sortOrder, error kinds) are TLA+ strings. *)
(* An absent optional string is the empty tuple, an absent enumeration is  *)
(* "undefined", and a null metric value is the empty tuple while the       *)
(* number v is <<v>>.                                                      *)
(***************************************************************************)
EXTENDS Integers, Sequences, FiniteSets, TLC

VARIABLES
    metricValues,     \* the metric_values table, in insertion order
    clock,            \* the ingestion writer's clock
    storeRead,        \* the result of the last store read
    metricProviders,  \* MetricProvidersRegistry.metricProviders
    datasourceIndex,  \* MetricProvidersRegistry.datasourceIndex
    regResult,        \* the outcome of the last register call
    regCalls,         \* the number of register calls so far
    resp,             \* the result of the last drill-down paging session
    latestMetrics,    \* the last getLatestEntityMetrics call and its result
    aggregated,       \* the last getAggregatedMetricByEntityRefs call and its result
    calculated,       \* the last calculateMetrics call and its result
    authorized        \* the getAuthorizedEntityRefs call in progress

vars == <<metricValues, clock, storeRead, metricProviders, datasourceIndex,
          regResult, regCalls, resp, latestMetrics, aggregated, calculated,
          authorized>>

storeVars == <<metricValues, clock, storeRead>>
registryVars == <<metricProviders, datasourceIndex, regResult, regCalls>>
callVars == <<calculated, authorized>>

-----------------------------------------------------------------------------
(* Bounds                                                                  *)

MaxRows == 3
MaxTs == 2
MaxRegisterCalls == 3
MaxPages == 3

-----------------------------------------------------------------------------
(* Strings                                                                 *)

\* UTF-16 code unit of the characters the model uses
CharCode(c) ==
    CASE c = "." -> 46 [] c = "/" -> 47 [] c = ":" -> 58
      [] c = "A" -> 65 [] c = "B" -> 66 [] c = "C" -> 67 [] c = "U" -> 85
      [] c = "a" -> 97 [] c = "b" -> 98 [] c = "c" -> 99 [] c = "d" -> 100
      [] c = "g" -> 103 [] c = "j" -> 106 [] c = "k" -> 107 [] c = "n" -> 110
      [] c = "o" -> 111 [] c = "t" -> 116 [] c = "u" -> 117 [] c = "w" -> 119

ToLowerChar(c) ==
    CASE c = "A" -> "a" [] c = "B" -> "b" [] c = "C" -> "c" [] c = "U" -> "u"
      [] OTHER -> c

toLowerCase(s) == [i \in 1..Len(s) |-> ToLowerChar(s[i])]

includes(s, t) ==
    \E i \in 0..(Len(s) - Len(t)) : SubSeq(s, i + 1, i + Len(t)) = t

startsWith(s, p) == Len(p) <= Len(s) /\ SubSeq(s, 1, Len(p)) = p

CodeUnits(s) == [i \in 1..Len(s) |-> CharCode(s[i])]

\* a < b for two tuples of integers, lexicographically (a proper prefix is less)
RECURSIVE LexLess(_, _)
LexLess(a, b) ==
    IF b = <<>> THEN FALSE
    ELSE IF a = <<>> THEN TRUE
    ELSE IF Head(a) < Head(b) THEN TRUE
    ELSE IF Head(a) > Head(b) THEN FALSE
    ELSE LexLess(Tail(a), Tail(b))

\* The comparator of Array.prototype.sort over items that carry their sort key
\* (a tuple of integers): does a go strictly before b?
KeyBefore(a, b, order) ==
    IF order = "asc" THEN LexLess(a.key, b.key) ELSE LexLess(b.key, a.key)

\* stable insertion of x into the sorted sequence s: x goes before the first
\* element the comparator puts it strictly before
RECURSIVE InsertSorted(_, _, _)
InsertSorted(x, s, order) ==
    IF s = <<>> THEN <<x>>
    ELSE IF KeyBefore(x, Head(s), order) THEN <<x>> \o s
    ELSE <<Head(s)>> \o InsertSorted(x, Tail(s), order)

\* Array.prototype.sort (stable) of a sequence of [key, item] records
RECURSIVE StableSort(_, _)
StableSort(s, order) ==
    IF s = <<>> THEN <<>>
    ELSE InsertSorted(s[Len(s)], StableSort(SubSeq(s, 1, Len(s) - 1), order), order)

Range(s) == {s[i] : i \in 1..Len(s)}

\* the concatenation of a sequence of sequences
RECURSIVE Concat(_)
Concat(ss) == IF ss = <<>> THEN <<>> ELSE Head(ss) \o Concat(Tail(ss))

-----------------------------------------------------------------------------
(* The catalog: three entities, kind:namespace/name                        *)

RefAB == <<"c", ":", "d", "/", "a", "b">>
RefB == <<"c", ":", "d", "/", "b">>
RefC == <<"a", ":", "d", "/", "c">>
EntityRefs == {RefAB, RefB, RefC}

KindComponent == <<"C">>
KindApi == <<"A">>
OwnerA == <<"t", "a">>
OwnerB == <<"t", "b">>
Unknown == <<"U", "n", "k", "n", "o", "w", "n">>

\* the entity the catalog holds for a ref: kind, metadata.name, spec.owner
CatalogEntity(ref) ==
    CASE ref = RefAB -> [kind |-> KindComponent, name |-> <<"a", "b">>, owner |-> OwnerA]
      [] ref = RefB -> [kind |-> KindComponent, name |-> <<"b">>, owner |-> OwnerB]
      [] ref = RefC -> [kind |-> KindApi, name |-> <<"c">>, owner |-> OwnerA]

\* the denormalized entity_kind and entity_owner columns written with a row;
\* rows of RefC are legacy rows written before the columns existed (null)
DenormKind(ref) == IF ref = RefC THEN <<>> ELSE CatalogEntity(ref).kind
DenormOwner(ref) == IF ref = RefC THEN <<>> ELSE CatalogEntity(ref).owner

\* metric ids
MetricA == <<"g", ".", "a">>
MetricB == <<"g", ".", "b">>

-----------------------------------------------------------------------------
(* The metric value store (DatabaseMetricValues)                           *)

NewRow(ref, metricId, value, ts, errorMessage, status) ==
    [catalog_entity_ref |-> ref, metric_id |-> metricId, value |-> value,
     timestamp |-> ts, error_message |-> errorMessage, status |-> status,
     entity_kind |-> DenormKind(ref), entity_owner |-> DenormOwner(ref)]

\* the greatest id of the table, 0 without rows
MaxId(table) ==
    IF table = <<>> THEN 0
    ELSE CHOOSE n \in {table[i].id : i \in 1..Len(table)} :
            \A i \in 1..Len(table) : table[i].id <= n

\* createMetricValues: the rows get the ids after the greatest id, in order
createMetricValues(table, values) ==
    table \o [i \in 1..Len(values) |-> [id |-> MaxId(table) + i] @@ values[i]]

\* IsLatest that orders the rows by ascending timestamp
IsEarliest(table, r) ==
    \A i \in 1..Len(table) :
        (table[i].catalog_entity_ref = r.catalog_entity_ref
            /\ table[i].metric_id = r.metric_id)
        => (table[i].timestamp > r.timestamp
            \/ (table[i].timestamp = r.timestamp /\ table[i].id >= r.id))

\* IsLatest by insertion order instead of timestamp
IsLastInserted(table, r) ==
    \A i \in 1..Len(table) :
        (table[i].catalog_entity_ref = r.catalog_entity_ref
            /\ table[i].metric_id = r.metric_id)
        => table[i].id <= r.id

\* is r the latest row of its entity for its metric: no row of the same entity
\* and metric has a greater timestamp (or the same timestamp and a greater id)
IsLatest(table, r) ==
    \A i \in 1..Len(table) :
        (table[i].catalog_entity_ref = r.catalog_entity_ref
            /\ table[i].metric_id = r.metric_id)
        => (table[i].timestamp < r.timestamp
            \/ (table[i].timestamp = r.timestamp /\ table[i].id <= r.id))

\* readLatestEntityMetricValues(entityRef, metricIds)
readLatestEntityMetricValues(table, entityRef, metricIds) ==
    SelectSeq(table, LAMBDA r :
        /\ r.catalog_entity_ref = entityRef
        /\ r.metric_id \in metricIds
        /\ IsLatest(table, r))

\* DrillDownRows that filters before it picks the latest row of each entity
DrillDownRowsFilterFirst(table, entityRefs, metricId, status, kind, owner) ==
    LET matching == SelectSeq(table, LAMBDA r :
            /\ r.metric_id = metricId
            /\ (entityRefs = {} \/ r.catalog_entity_ref \in entityRefs)
            /\ (status = "undefined" \/ r.status = status)
            /\ (kind = <<>> \/ r.entity_kind = kind)
            /\ (owner = <<>> \/ r.entity_owner = owner))
        latest == SelectSeq(matching, LAMBDA r : IsLatest(matching, r))
        keyed == [i \in 1..Len(latest) |->
                    [key |-> <<latest[i].timestamp, latest[i].id>>, item |-> latest[i]]]
        sorted == StableSort(keyed, "desc")
    IN  [i \in 1..Len(sorted) |-> sorted[i].item]

\* DrillDownRows that restricts to entityRefs also when the list is empty
DrillDownRowsNothingForNoRefs(table, entityRefs, metricId, status, kind, owner) ==
    LET matching == SelectSeq(table, LAMBDA r :
            /\ r.metric_id = metricId
            /\ IsLatest(table, r)
            /\ r.catalog_entity_ref \in entityRefs
            /\ (status = "undefined" \/ r.status = status)
            /\ (kind = <<>> \/ r.entity_kind = kind)
            /\ (owner = <<>> \/ r.entity_owner = owner))
        keyed == [i \in 1..Len(matching) |->
                    [key |-> <<matching[i].timestamp, matching[i].id>>, item |-> matching[i]]]
        sorted == StableSort(keyed, "desc")
    IN  [i \in 1..Len(sorted) |-> sorted[i].item]

\* the rows of a drill-down query before pagination: the latest row of each
\* entity for the metric, restricted to entityRefs unless it is empty, that
\* passes the status, kind and owner filters; newest first
DrillDownRows(table, entityRefs, metricId, status, kind, owner) ==
    LET matching == SelectSeq(table, LAMBDA r :
            /\ r.metric_id = metricId
            /\ IsLatest(table, r)
            /\ (entityRefs = {} \/ r.catalog_entity_ref \in entityRefs)
            /\ (status = "undefined" \/ r.status = status)
            /\ (kind = <<>> \/ r.entity_kind = kind)
            /\ (owner = <<>> \/ r.entity_owner = owner))
        keyed == [i \in 1..Len(matching) |->
                    [key |-> <<matching[i].timestamp, matching[i].id>>, item |-> matching[i]]]
        sorted == StableSort(keyed, "desc")
    IN  [i \in 1..Len(sorted) |-> sorted[i].item]

\* cleanupExpiredMetrics that also deletes the rows stamped with the cutoff
cleanupExpiredMetricsInclusive(table, olderThan) ==
    LET kept == SelectSeq(table, LAMBDA r : ~(r.timestamp <= olderThan))
    IN  [table |-> kept, deleted |-> Len(table) - Len(kept)]

\* cleanupExpiredMetrics(olderThan): deletes the rows whose timestamp is
\* before olderThan and returns how many it deleted
cleanupExpiredMetrics(table, olderThan) ==
    LET kept == SelectSeq(table, LAMBDA r : ~(r.timestamp < olderThan))
    IN  [table |-> kept, deleted |-> Len(table) - Len(kept)]

\* LIMIT/OFFSET
Slice(s, offset, limit) ==
    SubSeq(s, offset + 1, IF offset + limit < Len(s) THEN offset + limit ELSE Len(s))

\* readEntityMetricsByStatus(entityRefs, metricId, status, kind, owner, pagination):
\* pagination is <<>> (fetch all) or <<[limit, offset]>>
readEntityMetricsByStatus(table, entityRefs, metricId, status, kind, owner, pagination) ==
    LET all == DrillDownRows(table, entityRefs, metricId, status, kind, owner)
    IN  [rows |-> IF pagination = <<>> THEN all
                  ELSE Slice(all, pagination[1].offset, pagination[1].limit),
         total |-> Len(all)]

\* AggregateRows that takes every row of the entities, not only the latest
AggregateRowsAllVersions(table, entityRefs, metricId) ==
    SelectSeq(table, LAMBDA r :
        /\ r.metric_id = metricId
        /\ r.catalog_entity_ref \in entityRefs)

\* the rows an aggregation counts: the latest row of each entity of
\* entityRefs for the metric
AggregateRows(table, entityRefs, metricId) ==
    SelectSeq(table, LAMBDA r :
        /\ r.metric_id = metricId
        /\ r.catalog_entity_ref \in entityRefs
        /\ IsLatest(table, r))

CountStatus(rows, status) == Cardinality({i \in 1..Len(rows) : rows[i].status = status})

\* readAggregatedMetricByEntityRefs(entityRefs, metricId): <<>> (undefined)
\* when no row is counted, else <<the counts and the greatest timestamp>>
readAggregatedMetricByEntityRefs(table, entityRefs, metricId) ==
    LET rows == AggregateRows(table, entityRefs, metricId) IN
    IF rows = <<>> THEN <<>>
    ELSE <<[metric_id |-> metricId,
            total |-> Len(rows),
            success |-> CountStatus(rows, "success"),
            warning |-> CountStatus(rows, "warning"),
            error |-> CountStatus(rows, "error"),
            max_timestamp |-> CHOOSE t \in {rows[i].timestamp : i \in 1..Len(rows)} :
                                \A i \in 1..Len(rows) : rows[i].timestamp <= t]>>

-----------------------------------------------------------------------------
(* Metric providers                                                        *)

Metric(id, title, type) == [id |-> id, title |-> title, type |-> type]

\* A provider instance. hasMetricIds / hasMetrics say whether the optional
\* getMetricIds / getMetrics are implemented.
MetricProvider(name, ds, providerId, type, metric, hasIds, ids, hasMetrics, metrics) ==
    [name |-> name, datasourceId |-> ds, providerId |-> providerId,
     metricType |-> type, metric |-> metric,
     hasMetricIds |-> hasIds, metricIds |-> ids,
     hasMetrics |-> hasMetrics, metrics |-> metrics]

Github == <<"g">>
Jira == <<"j">>
MetricC == <<"g", ".", "c">>
MetricD == <<"g", ".", "d">>
BarePrefix == <<"g", ".">>
JiraA == <<"j", ".", "a">>

SingleProvider(name, ds, id, type, metricType) ==
    MetricProvider(name, ds, id, type, Metric(id, name, metricType),
                   FALSE, <<>>, FALSE, <<>>)

BatchProvider(name, ds, type, ids, metrics) ==
    MetricProvider(name, ds, ids[1], type, metrics[1], TRUE, ids, TRUE, metrics)

\* the provider instances a deployment may try to register
Providers == {
    \* a single-metric provider
    SingleProvider("openPrs", Github, MetricA, "number", "number"),
    \* a batch provider (as GithubFilesProvider) with two metrics
    BatchProvider("files", Github, "boolean", <<MetricB, MetricC>>,
        <<Metric(MetricB, "fileB", "boolean"), Metric(MetricC, "fileC", "boolean")>>),
    \* a batch provider whose second id is the id of openPrs
    BatchProvider("clash", Github, "number", <<MetricD, MetricA>>,
        <<Metric(MetricD, "clashD", "number"), Metric(MetricA, "clashA", "number")>>),
    \* a provider of another data source that emits the id of openPrs
    SingleProvider("foreign", Jira, MetricA, "number", "number"),
    \* a provider whose metric definition has another type than it declares
    SingleProvider("mistyped", Github, MetricA, "boolean", "number"),
    \* a batch provider that emits an id it has no definition for
    BatchProvider("undefinedId", Github, "number", <<MetricD, MetricC>>,
        <<Metric(MetricD, "undefD", "number")>>),
    \* a provider whose id is the bare prefix
    SingleProvider("bare", Github, BarePrefix, "number", "number"),
    \* a batch provider with two definitions of one id, the first of another type
    BatchProvider("shadowed", Github, "number", <<MetricC>>,
        <<Metric(MetricC, "shadowBool", "boolean"), Metric(MetricC, "shadowNum", "number")>>),
    \* a valid provider of another data source
    SingleProvider("issues", Jira, JiraA, "number", "number"),
    \* a batch provider configured with the same id twice (as GithubFilesProvider
    \* with two file entries of one key)
    BatchProvider("twice", Github, "number", <<MetricD, MetricD>>,
        <<Metric(MetricD, "twice1", "number"), Metric(MetricD, "twice2", "number")>>)
}

ProviderNames == {p.name : p \in Providers}
ProviderNamed(n) == CHOOSE p \in Providers : p.name = n

getMetricIds(p) == IF p.hasMetricIds THEN p.metricIds ELSE <<p.providerId>>
getMetrics(p) == IF p.hasMetrics THEN p.metrics ELSE <<p.metric>>

\* Array.prototype.find: the first element with the id, or <<>> (undefined)
FindMetric(metrics, id) ==
    IF \E i \in 1..Len(metrics) : metrics[i].id = id
    THEN <<metrics[CHOOSE i \in 1..Len(metrics) :
                /\ metrics[i].id = id
                /\ \A j \in 1..(i - 1) : metrics[j].id # id]>>
    ELSE <<>>

-----------------------------------------------------------------------------
(* MetricProvidersRegistry                                                 *)

\* metricProviders is a Map in insertion order: a sequence of [id, provider]
\* entries with distinct ids. datasourceIndex is a Map of Sets in insertion
\* order: a sequence of [ds, ids] entries.
MapHas(m, id) == \E i \in 1..Len(m) : m[i].id = id
MapGet(m, id) == m[CHOOSE i \in 1..Len(m) : m[i].id = id].provider
MapKeys(m) == {m[i].id : i \in 1..Len(m)}

\* Map.set: a new key is appended, a present key keeps its place
MapSet(m, id, provider) ==
    IF MapHas(m, id)
    THEN [i \in 1..Len(m) |-> IF m[i].id = id THEN [m[i] EXCEPT !.provider = provider] ELSE m[i]]
    ELSE Append(m, [id |-> id, provider |-> provider])

IndexHas(idx, ds) == \E i \in 1..Len(idx) : idx[i].ds = ds
IndexGet(idx, ds) == idx[CHOOSE i \in 1..Len(idx) : idx[i].ds = ds].ids

\* IndexAdd that starts a new set for every id
IndexAddNewSet(idx, ds, metricId) ==
    IF IndexHas(idx, ds)
    THEN [i \in 1..Len(idx) |->
            IF idx[i].ds = ds THEN [idx[i] EXCEPT !.ids = <<metricId>>] ELSE idx[i]]
    ELSE Append(idx, [ds |-> ds, ids |-> <<metricId>>])

\* datasourceIndex.get(ds) ?? new Set, then add(metricId)
IndexAdd(idx, ds, metricId) ==
    IF IndexHas(idx, ds)
    THEN [i \in 1..Len(idx) |->
            IF idx[i].ds = ds /\ metricId \notin Range(idx[i].ids)
            THEN [idx[i] EXCEPT !.ids = Append(@, metricId)]
            ELSE idx[i]]
    ELSE Append(idx, [ds |-> ds, ids |-> <<metricId>>])

\* FailingCheck without the duplicate id check
FailingCheckNoDuplicate(mp, p, metricId) ==
    LET metric == FindMetric(getMetrics(p), metricId)
        expectedPrefix == p.datasourceId \o <<".">>
    IN  IF metric = <<>> THEN 1
        ELSE IF p.metricType # metric[1].type THEN 2
        ELSE IF ~startsWith(metricId, expectedPrefix) \/ metricId = expectedPrefix THEN 3
        ELSE 0

\* FailingCheck without the metric type check
FailingCheckNoType(mp, p, metricId) ==
    LET metric == FindMetric(getMetrics(p), metricId)
        expectedPrefix == p.datasourceId \o <<".">>
    IN  IF metric = <<>> THEN 1
        ELSE IF ~startsWith(metricId, expectedPrefix) \/ metricId = expectedPrefix THEN 3
        ELSE IF MapHas(mp, metricId) THEN 4
        ELSE 0

\* FailingCheck without the id format check
FailingCheckNoFormat(mp, p, metricId) ==
    LET metric == FindMetric(getMetrics(p), metricId)
    IN  IF metric = <<>> THEN 1
        ELSE IF p.metricType # metric[1].type THEN 2
        ELSE IF MapHas(mp, metricId) THEN 4
        ELSE 0

\* the check of register that fails for the metric id, 0 when all four pass:
\* 1 no definition, 2 type mismatch, 3 id format, 4 duplicate id
FailingCheck(mp, p, metricId) ==
    LET metric == FindMetric(getMetrics(p), metricId)
        expectedPrefix == p.datasourceId \o <<".">>
    IN  IF metric = <<>> THEN 1
        ELSE IF p.metricType # metric[1].type THEN 2
        ELSE IF ~startsWith(metricId, expectedPrefix) \/ metricId = expectedPrefix THEN 3
        ELSE IF MapHas(mp, metricId) THEN 4
        ELSE 0

\* ErrorOfCheck that throws ConflictError for every failing check
ErrorOfCheckConflict(c) == "ConflictError"

\* the error register throws for a failing check: a plain Error for the three
\* validations, a ConflictError for the duplicate id
ErrorOfCheck(c) == IF c = 4 THEN "ConflictError" ELSE "Error"

\* registerFrom that adds the id to the data-source index before it checks it
RECURSIVE registerFromIndexFirst(_, _, _, _)
registerFromIndexFirst(mp, idx, p, k) ==
    LET metricIds == getMetricIds(p) IN
    IF k > Len(metricIds)
    THEN [metricProviders |-> mp, datasourceIndex |-> idx,
          error |-> "none", index |-> 0, check |-> 0]
    ELSE LET c == FailingCheck(mp, p, metricIds[k])
             indexed == IndexAdd(idx, p.datasourceId, metricIds[k])
         IN  IF c # 0
             THEN [metricProviders |-> mp, datasourceIndex |-> indexed,
                   error |-> ErrorOfCheck(c), index |-> k, check |-> c]
             ELSE registerFromIndexFirst(MapSet(mp, metricIds[k], p.name),
                                         indexed, p, k + 1)

\* the loop of register from the k-th metric id on: the registry it leaves and
\* the error it throws
RECURSIVE registerFrom(_, _, _, _)
registerFrom(mp, idx, p, k) ==
    LET metricIds == getMetricIds(p) IN
    IF k > Len(metricIds)
    THEN [metricProviders |-> mp, datasourceIndex |-> idx,
          error |-> "none", index |-> 0, check |-> 0]
    ELSE LET c == FailingCheck(mp, p, metricIds[k]) IN
         IF c # 0
         THEN [metricProviders |-> mp, datasourceIndex |-> idx,
               error |-> ErrorOfCheck(c), index |-> k, check |-> c]
         ELSE registerFrom(MapSet(mp, metricIds[k], p.name),
                           IndexAdd(idx, p.datasourceId, metricIds[k]), p, k + 1)

register(mp, idx, p) == registerFrom(mp, idx, p, 1)

\* getProvider: the provider registered for the id, or <<>> for NotFoundError
getProvider(mp, providerId) ==
    IF MapHas(mp, providerId) THEN <<ProviderNamed(MapGet(mp, providerId))>> ELSE <<>>

\* getMetric: the metric of the id, or <<>> for NotFoundError
getMetric(mp, providerId) ==
    LET found == getProvider(mp, providerId) IN
    IF found = <<>> THEN <<>>
    ELSE LET provider == found[1]
             metric == IF provider.hasMetrics
                       THEN FindMetric(provider.metrics, providerId) ELSE <<>>
         IN  IF metric # <<>> THEN metric ELSE <<provider.metric>>

\* what provider.calculateMetric(entity) resolves to when it does not throw:
\* a number that tells the providers apart
ValueOf(name) ==
    CASE name = "openPrs" -> 1 [] name = "files" -> 2 [] name = "issues" -> 3
      [] OTHER -> 4

\* calculateMetric(providerId, entity): the settled promise; throwing is the
\* set of providers whose calculateMetric throws
calculateMetric(mp, providerId, throwing) ==
    LET found == getProvider(mp, providerId) IN
    IF found = <<>> THEN [status |-> "rejected", reason |-> "NotFoundError"]
    ELSE IF found[1].name \in throwing THEN [status |-> "rejected", reason |-> "Error"]
    ELSE [status |-> "fulfilled", value |-> ValueOf(found[1].name)]

\* calculateMetrics that awaits the calculations with Promise.all
calculateMetricsAll(mp, providerIds, throwing) ==
    LET results == [i \in 1..Len(providerIds) |->
                        calculateMetric(mp, providerIds[i], throwing)]
        rejected == {i \in 1..Len(results) : results[i].status = "rejected"}
    IN  IF rejected # {}
        THEN [error |-> results[CHOOSE i \in rejected : \A j \in rejected : i <= j].reason,
              entries |-> <<>>]
        ELSE [error |-> "none",
              entries |-> [i \in 1..Len(results) |->
                    [providerId |-> providerIds[i], value |-> <<results[i].value>>,
                     error |-> <<>>]]]

\* calculateMetrics(providerIds, entity): Promise.allSettled, then one entry
\* per settled promise
calculateMetrics(mp, providerIds, throwing) ==
    LET results == [i \in 1..Len(providerIds) |->
                        calculateMetric(mp, providerIds[i], throwing)]
    IN  [error |-> "none",
         entries |-> [i \in 1..Len(results) |->
            IF results[i].status = "fulfilled"
            THEN [providerId |-> providerIds[i], value |-> <<results[i].value>>,
                  error |-> <<>>]
            ELSE [providerId |-> providerIds[i], value |-> <<>>,
                  error |-> <<results[i].reason>>]]]

\* listProviders: the values of the map, one per registered metric id
listProviders(mp) == [i \in 1..Len(mp) |-> ProviderNamed(mp[i].provider)]

\* AllMetricsOf without the seen set
RECURSIVE AllMetricsOfNoSeen(_, _)
AllMetricsOfNoSeen(names, seen) ==
    IF names = <<>> THEN <<>>
    ELSE getMetrics(ProviderNamed(Head(names)))
            \o AllMetricsOfNoSeen(Tail(names), seen \cup {Head(names)})

\* the loop over provider instances that skips the instances already seen and
\* pushes the metrics of the others
RECURSIVE AllMetricsOf(_, _)
AllMetricsOf(names, seen) ==
    IF names = <<>> THEN <<>>
    ELSE IF Head(names) \in seen THEN AllMetricsOf(Tail(names), seen)
    ELSE getMetrics(ProviderNamed(Head(names)))
            \o AllMetricsOf(Tail(names), seen \cup {Head(names)})

\* listMetrics(providerIds): providerIds is <<>> when absent or empty
listMetrics(mp, providerIds) ==
    IF providerIds # <<>>
    THEN Concat([i \in 1..Len(providerIds) |->
            IF ~MapHas(mp, providerIds[i]) THEN <<>>
            ELSE LET provider == ProviderNamed(MapGet(mp, providerIds[i]))
                 IN  IF provider.hasMetrics
                     THEN FindMetric(provider.metrics, providerIds[i])
                     ELSE <<provider.metric>>])
    ELSE AllMetricsOf([i \in 1..Len(mp) |-> mp[i].provider], {})

\* listMetricsByDatasource(datasourceId)
listMetricsByDatasource(mp, idx, datasourceId) ==
    IF ~IndexHas(idx, datasourceId) THEN <<>>
    ELSE LET providerIds == IndexGet(idx, datasourceId)
             registered == SelectSeq(providerIds, LAMBDA id : MapHas(mp, id))
         IN  AllMetricsOf([i \in 1..Len(registered) |-> MapGet(mp, registered[i])], {})

-----------------------------------------------------------------------------
(* CatalogMetricService.getEntityMetricDetails                             *)

\* catalog.getEntitiesByRefs: a response is [throws, gone]; the call throws, or
\* returns one item per requested ref, undefined (<<>>) for the refs in gone
getEntitiesByRefs(catalog, entityRefs) ==
    [i \in 1..Len(entityRefs) |->
        IF entityRefs[i] \in catalog.gone THEN <<>>
        ELSE <<CatalogEntity(entityRefs[i])>>]

\* dbPagination with the offset of the next page
dbPaginationNextPage(options) ==
    IF options.entityName # <<>> THEN <<>>
    ELSE <<[limit |-> options.limit, offset |-> options.page * options.limit]>>

\* the database pagination: none when the entityName filter asks for
\* application-level filtering
dbPagination(options) ==
    IF options.entityName # <<>> THEN <<>>
    ELSE <<[limit |-> options.limit, offset |-> (options.page - 1) * options.limit]>>

\* a ?? b for optional strings
Coalesce(a, b) == IF a # <<>> THEN a ELSE b

\* one row enriched with the catalog entity found for it, <<>> when none
EnrichRow(row, found) ==
    [entityRef |-> row.catalog_entity_ref,
     entityName |-> IF found # <<>> THEN found[1].name ELSE Unknown,
     entityKind |-> IF found # <<>> THEN found[1].kind
                    ELSE Coalesce(row.entity_kind, Unknown),
     owner |-> IF found # <<>> THEN found[1].owner
               ELSE Coalesce(row.entity_owner, Unknown),
     metricValue |-> row.value,
     timestamp |-> row.timestamp,
     status |-> row.status]

\* the rows enriched with the catalog data; the entity map stays empty when
\* there is no row to look up or the lookup throws
EnrichRows(rows, catalog) ==
    LET items == IF Len(rows) > 0 /\ ~catalog.throws
                 THEN getEntitiesByRefs(catalog,
                        [i \in 1..Len(rows) |-> rows[i].catalog_entity_ref])
                 ELSE [i \in 1..Len(rows) |-> <<>>]
    IN  [i \in 1..Len(rows) |-> EnrichRow(rows[i], items[i])]

\* the application-level entityName filter
NameFilter(entities, entityName) ==
    IF entityName # <<>>
    THEN SelectSeq(entities, LAMBDA e :
            includes(toLowerCase(e.entityName), toLowerCase(entityName)))
    ELSE entities

\* aValue / bValue of the sort comparator
SortKey(e, sortBy) ==
    CASE sortBy = "entityName" -> CodeUnits(toLowerCase(e.entityName))
      [] sortBy = "owner" -> CodeUnits(toLowerCase(e.owner))
      [] sortBy = "entityKind" -> CodeUnits(toLowerCase(e.entityKind))
      [] sortBy = "timestamp" -> <<e.timestamp>>
      \* metricValue ?? -Infinity: <<0>> is below every <<1, v>>
      [] sortBy = "metricValue" ->
            IF e.metricValue = <<>> THEN <<0>> ELSE <<1, e.metricValue[1]>>
      [] OTHER -> <<e.timestamp>>

\* filteredEntities.sort(...): by the requested key, or by timestamp descending
SortEntities(entities, sortBy, sortOrder) ==
    LET by == IF sortBy # "undefined" THEN sortBy ELSE "timestamp"
        order == IF sortBy # "undefined"
                 THEN (IF sortOrder = "asc" THEN "asc" ELSE "desc")
                 ELSE "desc"
        keyed == [i \in 1..Len(entities) |->
                    [key |-> SortKey(entities[i], by), item |-> entities[i]]]
        sorted == StableSort(keyed, order)
    IN  [i \in 1..Len(sorted) |-> sorted[i].item]

\* Math.ceil(total / limit)
CeilDiv(total, limit) == (total + limit - 1) \div limit

getEntityMetricDetails(table, mp, catalog, entityRefs, metricId, options) ==
    LET needsAppFiltering == options.entityName # <<>>
        db == readEntityMetricsByStatus(table, entityRefs, metricId,
                options.status, options.kind, options.owner, dbPagination(options))
        metric == getMetric(mp, metricId)
        enrichedEntities == EnrichRows(db.rows, catalog)
        filteredEntities == SortEntities(
            NameFilter(enrichedEntities, options.entityName),
            options.sortBy, options.sortOrder)
        startIndex == (options.page - 1) * options.limit
        finalEntities == IF needsAppFiltering
                         THEN Slice(filteredEntities, startIndex, options.limit)
                         ELSE filteredEntities
        finalTotal == IF needsAppFiltering THEN Len(filteredEntities) ELSE db.total
    IN  IF metric = <<>>
        THEN [error |-> "NotFoundError", metricId |-> <<>>,
              metricMetadata |-> <<>>, entities |-> <<>>,
              pagination |-> [page |-> options.page, pageSize |-> options.limit,
                              total |-> 0, totalPages |-> 0]]
        ELSE [error |-> "none", metricId |-> metric[1].id,
              metricMetadata |-> <<metric[1].title, metric[1].type>>,
              entities |-> finalEntities,
              pagination |-> [page |-> options.page, pageSize |-> options.limit,
                              total |-> finalTotal,
                              totalPages |-> CeilDiv(finalTotal, options.limit)]]

-----------------------------------------------------------------------------
(* CatalogMetricService.getLatestEntityMetrics                             *)

\* A permission filter is absent (<<>>) or <<criteria>>; criteria is a condition
\* [op = "cond", metricIds] of the rule HAS_METRIC_ID, or [op, of] with op one
\* of anyOf, allOf, not over a sequence of criteria.
RECURSIVE matchesCriteria(_, _)
matchesCriteria(metric, criteria) ==
    CASE criteria.op = "cond" -> metric.id \in criteria.metricIds
      [] criteria.op = "anyOf" ->
            \E i \in 1..Len(criteria.of) : matchesCriteria(metric, criteria.of[i])
      [] criteria.op = "allOf" ->
            \A i \in 1..Len(criteria.of) : matchesCriteria(metric, criteria.of[i])
      [] criteria.op = "not" -> ~matchesCriteria(metric, criteria.of[1])

\* matches(metric, filter): an absent filter matches every metric
matches(metric, filter) == filter = <<>> \/ matchesCriteria(metric, filter[1])

filterAuthorizedMetrics(metrics, filter) ==
    SelectSeq(metrics, LAMBDA m : matches(m, filter))

\* An entity of the catalog as getEntityByRef returns it: <<>> (undefined) or
\* <<[ref, overridden, malformed]>>, where overridden and malformed are the
\* providers the entity's annotations carry a threshold override for and a
\* malformed threshold override for.
\* mergeEntityAndProviderThresholds(entity, provider): the entity's override
\* replaces the provider's thresholds; a malformed override (or no entity to
\* read) throws
mergeEntityAndProviderThresholds(entity, provider) ==
    IF entity = <<>> \/ provider.name \in entity[1].malformed
    THEN [throws |-> TRUE, thresholds |-> <<>>]
    ELSE [throws |-> FALSE,
          thresholds |-> IF provider.name \in entity[1].overridden
                         THEN <<"entity", provider.name>>
                         ELSE <<"provider", provider.name>>]

MissingValueMessage == "Unable to evaluate thresholds, metric value is missing"
MergeFailedMessage == "Error: Invalid threshold annotation"

\* thresholdError with the stored error message taking precedence
thresholdErrorMessageFirst(row, merged) ==
    IF merged.throws THEN <<MergeFailedMessage>>
    ELSE IF row.error_message # <<>> THEN row.error_message
    ELSE IF row.value = <<>> THEN <<MissingValueMessage>>
    ELSE <<>>

\* thresholdError after the try/catch around the merge: <<>> (undefined) or
\* <<message>>
thresholdError(row, merged) ==
    IF merged.throws THEN <<MergeFailedMessage>>
    ELSE IF row.value = <<>> THEN <<MissingValueMessage>>
    ELSE IF row.error_message # <<>> THEN row.error_message
    ELSE <<>>

\* isMetricCalcError with || for &&
isMetricCalcErrorEither(row) == row.error_message # <<>> \/ row.value = <<>>

isMetricCalcError(row) == row.error_message # <<>> /\ row.value = <<>>

\* the MetricResult returned for a row, its provider and the outcome of the
\* threshold merge
MetricResult(row, provider, merged) ==
    LET metric == provider.metric
        error == thresholdError(row, merged)
        calcError == isMetricCalcError(row)
    IN  [id |-> metric.id,
         status |-> IF calcError THEN "error" ELSE "success",
         metadata |-> <<metric.title, metric.type>>,
         error |-> IF calcError THEN row.error_message ELSE <<>>,
         value |-> row.value,
         timestamp |-> row.timestamp,
         thresholdResult |->
            [definition |-> merged.thresholds,
             status |-> IF error # <<>> THEN "error" ELSE "success",
             evaluation |-> row.status,
             error |-> error]]

\* MetricResultOf with the merge outside the try block: its throw is the
\* throw of the callback
MetricResultOfUncaught(row, mp, entity) ==
    LET found == getProvider(mp, row.metric_id) IN
    IF found = <<>> THEN [throws |-> TRUE, result |-> <<>>]
    ELSE LET merged == mergeEntityAndProviderThresholds(entity, found[1])
         IN  IF merged.throws THEN [throws |-> TRUE, result |-> <<>>]
             ELSE [throws |-> FALSE, result |-> <<MetricResult(row, found[1], merged)>>]

\* the callback of rawResults.map for one row: it throws (NotFoundError of
\* getProvider) or returns the MetricResult
MetricResultOf(row, mp, entity) ==
    LET found == getProvider(mp, row.metric_id) IN
    IF found = <<>> THEN [throws |-> TRUE, result |-> <<>>]
    ELSE [throws |-> FALSE,
          result |-> <<MetricResult(row, found[1],
                            mergeEntityAndProviderThresholds(entity, found[1]))>>]

\* the part of getLatestEntityMetrics after the entity check
LatestResults(table, mp, entity, entityRef, providerIds, filter) ==
    LET metricsToFetch == listMetrics(mp, providerIds)
        authorizedMetricsToFetch == filterAuthorizedMetrics(metricsToFetch, filter)
        ids == [i \in 1..Len(authorizedMetricsToFetch) |-> authorizedMetricsToFetch[i].id]
        rawResults == readLatestEntityMetricValues(table, entityRef, Range(ids))
        mapped == [i \in 1..Len(rawResults) |-> MetricResultOf(rawResults[i], mp, entity)]
        calls == <<"catalog.getEntityByRef", "registry.listMetrics",
                   "filterAuthorizedMetrics", "database.readLatestEntityMetricValues">>
    IN  IF \E i \in 1..Len(mapped) : mapped[i].throws
        THEN [error |-> IF \E i \in 1..Len(mapped) :
                             getProvider(mp, rawResults[i].metric_id) = <<>>
                        THEN "NotFoundError" ELSE "Error",
              calls |-> calls, requested |-> ids, rows |-> rawResults, results |-> <<>>]
        ELSE [error |-> "none", calls |-> calls, requested |-> ids, rows |-> rawResults,
              results |-> [i \in 1..Len(mapped) |-> mapped[i].result[1]]]

\* getLatestEntityMetrics without the entity check
getLatestEntityMetricsUnchecked(table, mp, entity, entityRef, providerIds, filter) ==
    LatestResults(table, mp, entity, entityRef, providerIds, filter)

\* getLatestEntityMetrics(entityRef, providerIds, filter), entity being what
\* catalog.getEntityByRef returns: the error thrown, the collaborators called,
\* the metric ids and rows read, and the results
getLatestEntityMetrics(table, mp, entity, entityRef, providerIds, filter) ==
    IF entity = <<>>
    THEN [error |-> "NotFoundError", calls |-> <<"catalog.getEntityByRef">>,
          requested |-> <<>>, rows |-> <<>>, results |-> <<>>]
    ELSE LatestResults(table, mp, entity, entityRef, providerIds, filter)

-----------------------------------------------------------------------------
(* permissionUtils.getAuthorizedEntityRefs                                 *)

\* the entities fetched per catalog query
BatchSize == 50

\* stringifyEntityRef: kind:namespace/name in lower case (the namespace of
\* every entity is d)
stringifyEntityRef(entity) ==
    toLowerCase(entity.kind \o <<":", "d", "/">> \o entity.name)

\* catalog.queryEntities(request): the catalog holds its entities in pages;
\* the first page answers a request without cursor, the cursor of a response
\* names the next page, the last page has none
queryEntities(pages, request) ==
    LET k == IF request.cursor = <<>> THEN 1 ELSE request.cursor[1]
    IN  [items |-> pages[k],
         nextCursor |-> IF k < Len(pages) THEN <<k + 1>> ELSE <<>>]

\* one turn of the loop that never hands a cursor to the catalog
getAuthorizedEntityRefsStepNoCursor(st) ==
    LET request == [limit |-> BatchSize, cursor |-> <<>>]
        response == queryEntities(st.pages, request)
    IN  [pc |-> IF response.nextCursor = <<>> THEN "done" ELSE "querying",
         pages |-> st.pages,
         cursor |-> response.nextCursor,
         queries |-> Append(st.queries, request),
         responses |-> Append(st.responses, response),
         refs |-> st.refs \o [i \in 1..Len(response.items) |->
                                stringifyEntityRef(response.items[i])]]

\* one turn of the loop of getAuthorizedEntityRefs: query the catalog with
\* the batch size and the cursor of the last response, collect the refs of
\* the items, go on while the response names a next cursor
getAuthorizedEntityRefsStep(st) ==
    LET request == [limit |-> BatchSize, cursor |-> st.cursor]
        response == queryEntities(st.pages, request)
    IN  [pc |-> IF response.nextCursor = <<>> THEN "done" ELSE "querying",
         pages |-> st.pages,
         cursor |-> response.nextCursor,
         queries |-> Append(st.queries, request),
         responses |-> Append(st.responses, response),
         refs |-> st.refs \o [i \in 1..Len(response.items) |->
                                stringifyEntityRef(response.items[i])]]

-----------------------------------------------------------------------------
(* CatalogMetricService.getAggregatedMetricByEntityRefs                    *)

\* AggregatedMetricMapper.toAggregatedMetric(aggregate?): the counts by status
\* in the fixed order success, warning, error, the total and the timestamp;
\* without an aggregate every count is 0 and the timestamp is the current time
toAggregatedMetric(aggregate, now) ==
    LET count(status) == IF aggregate = <<>> THEN 0
                         ELSE CASE status = "success" -> aggregate[1].success
                                [] status = "warning" -> aggregate[1].warning
                                [] status = "error" -> aggregate[1].error
    IN  [values |-> <<[count |-> count("success"), name |-> "success"],
                      [count |-> count("warning"), name |-> "warning"],
                      [count |-> count("error"), name |-> "error"]>>,
         total |-> IF aggregate = <<>> THEN 0 ELSE aggregate[1].total,
         timestamp |-> IF aggregate = <<>> THEN now ELSE aggregate[1].max_timestamp]

\* getAggregatedMetricByEntityRefs that reads the store for every list
getAggregatedMetricByEntityRefsAlwaysReads(table, entityRefs, metricId, now) ==
    [calls |-> <<[op |-> "readAggregatedMetricByEntityRefs",
                  entityRefs |-> entityRefs, metricId |-> metricId]>>,
     result |-> toAggregatedMetric(
                    readAggregatedMetricByEntityRefs(table, Range(entityRefs), metricId),
                    now)]

\* getAggregatedMetricByEntityRefs(entityRefs, metricId): the store reads it
\* issues and the aggregate it returns
getAggregatedMetricByEntityRefs(table, entityRefs, metricId, now) ==
    IF Len(entityRefs) # 0
    THEN [calls |-> <<[op |-> "readAggregatedMetricByEntityRefs",
                       entityRefs |-> entityRefs, metricId |-> metricId]>>,
          result |-> toAggregatedMetric(
                         readAggregatedMetricByEntityRefs(table, Range(entityRefs), metricId),
                         now)]
    ELSE [calls |-> <<>>, result |-> toAggregatedMetric(<<>>, now)]

-----------------------------------------------------------------------------
(* Inputs                                                                  *)

\* what one calculation run writes: a value with its threshold status, or no
\* value and the error message
Readings == {
    [value |-> <<1>>, status |-> "success", error_message |-> <<>>],
    [value |-> <<2>>, status |-> "error", error_message |-> <<>>],
    [value |-> <<>>, status |-> "undefined", error_message |-> <<"failed">>]
}

\* the drill-down filters tried: entityRefs scope, status, kind, owner, entityName
Filter(entityRefs, status, kind, owner, entityName) ==
    [entityRefs |-> entityRefs, status |-> status, kind |-> kind, owner |-> owner,
     entityName |-> entityName]

Filters == {
    Filter({}, "undefined", <<>>, <<>>, <<>>),
    Filter({}, "error", <<>>, <<>>, <<>>),
    Filter({RefAB, RefC}, "undefined", KindComponent, OwnerA, <<>>),
    Filter({}, "undefined", <<>>, <<>>, <<"a">>),
    Filter({}, "undefined", <<>>, <<>>, <<"B">>),
    Filter({}, "undefined", <<>>, <<>>, <<"n">>)
}

Sorts == {
    <<"undefined", "desc">>,
    <<"entityName", "asc">>,
    <<"owner", "desc">>,
    <<"entityKind", "asc">>,
    <<"timestamp", "asc">>,
    <<"metricValue", "asc">>,
    <<"metricValue", "desc">>
}

PageSizes == {1, 2}

\* the queries of a paging session: every sort without filter, and every
\* filter under the default sort and under the two metricValue sorts
Queries ==
    {[filter |-> c[1], sortBy |-> c[2][1], sortOrder |-> c[2][2], limit |-> c[3]] :
        c \in {x \in Filters \X Sorts \X PageSizes :
                  \/ x[1] = Filter({}, "undefined", <<>>, <<>>, <<>>)
                  \/ x[2][1] \in {"undefined", "metricValue"}}}

CatalogResponses == {
    [throws |-> FALSE, gone |-> {}],
    [throws |-> FALSE, gone |-> {RefB}],
    [throws |-> TRUE, gone |-> {}]
}

Options(q, page) ==
    [status |-> q.filter.status, owner |-> q.filter.owner, kind |-> q.filter.kind,
     entityName |-> q.filter.entityName, sortBy |-> q.sortBy,
     sortOrder |-> q.sortOrder, page |-> page, limit |-> q.limit]

\* one request of the drilled metric
Page(table, mp, catalog, q, page) ==
    getEntityMetricDetails(table, mp, catalog, q.filter.entityRefs, MetricA,
                           Options(q, page))

\* a paging session: page 1, then every further page up to the totalPages
\* that page 1 reports, against the same store content and catalog
Session(table, mp, catalog, q) ==
    LET first == Page(table, mp, catalog, q, 1)
        n == IF first.pagination.totalPages > 1 THEN first.pagination.totalPages ELSE 1
    IN  [p \in 1..n |-> Page(table, mp, catalog, q, p)]

NoResp == [query |-> <<>>, catalog |-> <<>>, pages |-> <<>>]
NoRead == [op |-> "none"]
NoRegResult == [provider |-> "none", error |-> "none", index |-> 0, check |-> 0]
NoLatest == [entityRef |-> <<>>]
NoAggregated == [metricId |-> <<>>]
NoCalculated == [called |-> FALSE]
NoAuthorized == [pc |-> "idle"]

\* what a calculation run may leave in a row: also a value next to an error
\* message, and neither a value nor a message
LatestReadings ==
    Readings \cup {
        [value |-> <<3>>, status |-> "success", error_message |-> <<"late">>],
        [value |-> <<>>, status |-> "undefined", error_message |-> <<>>]}

\* what catalog.getEntityByRef answers: nothing, or the entity with its
\* threshold overrides
EntityAnswers(ref) == {
    <<>>,
    <<[ref |-> ref, overridden |-> {}, malformed |-> {}]>>,
    <<[ref |-> ref, overridden |-> {"openPrs"}, malformed |-> {}]>>,
    <<[ref |-> ref, overridden |-> {}, malformed |-> {"openPrs"}]>>,
    <<[ref |-> ref, overridden |-> {}, malformed |-> {"files"}]>>
}

ProviderIdLists == {<<>>, <<MetricA>>, <<MetricC, MetricA>>, <<MetricC, MetricD>>}

Cond(ids) == [op |-> "cond", metricIds |-> ids]

PermissionFilters == {
    <<>>,
    <<[op |-> "anyOf", of |-> <<Cond({MetricA})>>]>>,
    <<[op |-> "not", of |-> <<Cond({MetricA})>>]>>,
    <<[op |-> "allOf", of |-> <<Cond({MetricC, MetricD})>>]>>
}

-----------------------------------------------------------------------------
(* Actions                                                                 *)

\* the ingestion job appends one calculated value, stamped with its clock
Ingest(ref, metricId, reading) ==
    /\ Len(metricValues) < MaxRows
    /\ metricValues' = createMetricValues(metricValues,
            <<NewRow(ref, metricId, reading.value, clock,
                     reading.error_message, reading.status)>>)
    /\ clock' = clock + 1
    /\ storeRead' = NoRead
    /\ resp' = NoResp
    /\ latestMetrics' = NoLatest
    /\ aggregated' = NoAggregated
    /\ UNCHANGED registryVars
    /\ UNCHANGED callVars

\* a row is inserted with a timestamp of the writer's choice (a backfill, a
\* late writer): insertion order and timestamp order may differ
Insert(ref, metricId, reading, ts) ==
    /\ Len(metricValues) < MaxRows
    /\ metricValues' = createMetricValues(metricValues,
            <<NewRow(ref, metricId, reading.value, ts,
                     reading.error_message, reading.status)>>)
    /\ storeRead' = NoRead
    /\ resp' = NoResp
    /\ latestMetrics' = NoLatest
    /\ aggregated' = NoAggregated
    /\ UNCHANGED clock
    /\ UNCHANGED registryVars
    /\ UNCHANGED callVars

\* database.readLatestEntityMetricValues(entityRef, metricIds)
ReadLatest(entityRef, metricIds) ==
    /\ storeRead = NoRead
    /\ storeRead' = [op |-> "latest", entityRef |-> entityRef, metricIds |-> metricIds,
                     rows |-> readLatestEntityMetricValues(metricValues, entityRef, metricIds)]
    /\ UNCHANGED <<metricValues, clock, resp, latestMetrics, aggregated>>
    /\ UNCHANGED registryVars
    /\ UNCHANGED callVars

\* database.readEntityMetricsByStatus(entityRefs, MetricA, status, -, -, pagination)
ReadDetails(entityRefs, status, pagination) ==
    /\ storeRead = NoRead
    /\ storeRead' = [op |-> "details", entityRefs |-> entityRefs, status |-> status,
                     pagination |-> pagination,
                     result |-> readEntityMetricsByStatus(metricValues, entityRefs,
                                    MetricA, status, <<>>, <<>>, pagination)]
    /\ UNCHANGED <<metricValues, clock, resp, latestMetrics, aggregated>>
    /\ UNCHANGED registryVars
    /\ UNCHANGED callVars

\* database.readAggregatedMetricByEntityRefs(entityRefs, metricId)
ReadAggregate(entityRefs, metricId) ==
    /\ storeRead = NoRead
    /\ storeRead' = [op |-> "aggregate", entityRefs |-> entityRefs, metricId |-> metricId,
                     result |-> readAggregatedMetricByEntityRefs(metricValues,
                                    entityRefs, metricId)]
    /\ UNCHANGED <<metricValues, clock, resp, latestMetrics, aggregated>>
    /\ UNCHANGED registryVars
    /\ UNCHANGED callVars

\* the greatest timestamp among the rows of an entity and a metric, 0 without
LastTimestamp(table, ref, metricId) ==
    LET ts == {table[i].timestamp : i \in {k \in 1..Len(table) :
                    /\ table[k].catalog_entity_ref = ref
                    /\ table[k].metric_id = metricId}}
    IN  IF ts = {} THEN 0 ELSE CHOOSE t \in ts : \A u \in ts : u <= t

\* the greatest timestamp each entity and metric was read with so far
SeenBy(read) ==
    [key \in EntityRefs \X {MetricA, MetricB} |->
        IF read.op # "latest" THEN 0
        ELSE LET own == {read.rows[i].timestamp : i \in {k \in 1..Len(read.rows) :
                            /\ read.rows[k].catalog_entity_ref = key[1]
                            /\ read.rows[k].metric_id = key[2]}}
                        \cup {read.earlier[key]}
             IN  CHOOSE t \in own : \A u \in own : u <= t]

\* the ingestion writer appends a value of an entity and a metric while
\* readers are served; its timestamps increase per entity and metric
AppendValue(ref, metricId, reading, ts) ==
    /\ Len(metricValues) < MaxRows
    /\ ts > LastTimestamp(metricValues, ref, metricId)
    /\ metricValues' = createMetricValues(metricValues,
            <<NewRow(ref, metricId, reading.value, ts,
                     reading.error_message, reading.status)>>)
    /\ UNCHANGED <<clock, storeRead, resp, latestMetrics, aggregated>>
    /\ UNCHANGED registryVars
    /\ UNCHANGED callVars

\* a reader calls database.readLatestEntityMetricValues(entityRef, metricIds)
\* at any moment between the appends
LatestFor(entityRef, metricIds) ==
    /\ storeRead' = [op |-> "latest", entityRef |-> entityRef, metricIds |-> metricIds,
                     rows |-> readLatestEntityMetricValues(metricValues, entityRef, metricIds),
                     upTo |-> MaxId(metricValues),
                     earlier |-> SeenBy(storeRead)]
    /\ UNCHANGED <<metricValues, clock, resp, latestMetrics, aggregated>>
    /\ UNCHANGED registryVars
    /\ UNCHANGED callVars

\* database.cleanupExpiredMetrics(olderThan)
Cleanup(olderThan) ==
    /\ storeRead = NoRead
    /\ LET r == cleanupExpiredMetrics(metricValues, olderThan) IN
        /\ metricValues' = r.table
        /\ storeRead' = [op |-> "cleanup", olderThan |-> olderThan,
                         before |-> metricValues, deleted |-> r.deleted]
    /\ UNCHANGED <<clock, resp, latestMetrics, aggregated>>
    /\ UNCHANGED registryVars
    /\ UNCHANGED callVars

\* registry.calculateMetrics(providerIds, entity) while the providers of
\* throwing fail
Calculate(providerIds, throwing) ==
    /\ calculated = NoCalculated
    /\ calculated' = [called |-> TRUE, providerIds |-> providerIds,
                      throwing |-> throwing,
                      result |-> calculateMetrics(metricProviders, providerIds, throwing)]
    /\ UNCHANGED <<storeVars, resp, latestMetrics, aggregated, authorized>>
    /\ UNCHANGED registryVars

\* getAuthorizedEntityRefs is called against a catalog of the given pages
StartAuthorized(pages) ==
    /\ authorized = NoAuthorized
    /\ authorized' = [pc |-> "querying", pages |-> pages, cursor |-> <<>>,
                      queries |-> <<>>, responses |-> <<>>, refs |-> <<>>]
    /\ UNCHANGED <<storeVars, resp, latestMetrics, aggregated, calculated>>
    /\ UNCHANGED registryVars

\* the call fetches its next page
QueryPage ==
    /\ authorized.pc = "querying"
    /\ authorized' = getAuthorizedEntityRefsStep(authorized)
    /\ UNCHANGED <<storeVars, resp, latestMetrics, aggregated, calculated>>
    /\ UNCHANGED registryVars

\* a client asks for the aggregate of a metric over a list of entities
GetAggregated(entityRefs, metricId) ==
    /\ aggregated = NoAggregated
    /\ aggregated' = [entityRefs |-> entityRefs, metricId |-> metricId,
                      result |-> getAggregatedMetricByEntityRefs(metricValues,
                                     entityRefs, metricId, clock)]
    /\ UNCHANGED <<storeVars, resp, latestMetrics>>
    /\ UNCHANGED registryVars
    /\ UNCHANGED callVars

\* a client pages through the drill-down of MetricA; the session is over when
\* the next value is ingested
DrillDown(q, catalog) ==
    /\ resp = NoResp
    /\ resp' = [query |-> <<q>>, catalog |-> <<catalog>>,
                pages |-> Session(metricValues, metricProviders, catalog, q)]
    /\ storeRead' = NoRead
    /\ UNCHANGED <<metricValues, clock, latestMetrics, aggregated>>
    /\ UNCHANGED registryVars
    /\ UNCHANGED callVars

\* a client asks for the latest metrics of an entity
GetLatest(entityRef, providerIds, filter, entity) ==
    /\ latestMetrics = NoLatest
    /\ latestMetrics' = [entityRef |-> entityRef, providerIds |-> providerIds,
                  filter |-> filter, entity |-> entity,
                  result |-> getLatestEntityMetrics(metricValues, metricProviders,
                                entity, entityRef, providerIds, filter)]
    /\ UNCHANGED <<storeVars, resp, aggregated>>
    /\ UNCHANGED registryVars
    /\ UNCHANGED callVars

\* registry.register(provider)
Register(p) ==
    /\ regCalls < MaxRegisterCalls
    /\ LET r == register(metricProviders, datasourceIndex, p) IN
        /\ metricProviders' = r.metricProviders
        /\ datasourceIndex' = r.datasourceIndex
        /\ regResult' = [provider |-> p.name, error |-> r.error,
                         index |-> r.index, check |-> r.check]
    /\ regCalls' = regCalls + 1
    /\ calculated' = NoCalculated
    /\ UNCHANGED <<storeVars, resp, latestMetrics, aggregated, authorized>>

-----------------------------------------------------------------------------
(* Specifications                                                          *)

InitStore ==
    /\ metricValues = <<>>
    /\ clock = 1
    /\ storeRead = NoRead
    /\ resp = NoResp
    /\ latestMetrics = NoLatest
    /\ aggregated = NoAggregated
    /\ calculated = NoCalculated
    /\ authorized = NoAuthorized

\* the registry after construction
Init ==
    /\ InitStore
    /\ metricProviders = <<>>
    /\ datasourceIndex = <<>>
    /\ regResult = NoRegResult
    /\ regCalls = 0

\* the service after start-up has registered the provider of MetricA
InitServing ==
    /\ InitStore
    /\ LET r == register(<<>>, <<>>, ProviderNamed("openPrs")) IN
        /\ metricProviders = r.metricProviders
        /\ datasourceIndex = r.datasourceIndex
    /\ regResult = NoRegResult
    /\ regCalls = 0

NextRegistry == \E p \in Providers : Register(p)

SpecRegistry == Init /\ [][NextRegistry]_vars

NextDrill ==
    \/ \E ref \in EntityRefs, reading \in Readings : Ingest(ref, MetricA, reading)
    \/ \E q \in Queries, catalog \in CatalogResponses : DrillDown(q, catalog)

SpecDrill == InitServing /\ [][NextDrill]_vars

\* the service after start-up has registered a single-metric provider, a batch
\* provider and a provider of another data source
InitLatest ==
    /\ InitStore
    /\ LET r1 == register(<<>>, <<>>, ProviderNamed("openPrs"))
           r2 == register(r1.metricProviders, r1.datasourceIndex, ProviderNamed("files"))
           r3 == register(r2.metricProviders, r2.datasourceIndex, ProviderNamed("issues"))
       IN  /\ metricProviders = r3.metricProviders
           /\ datasourceIndex = r3.datasourceIndex
    /\ regResult = NoRegResult
    /\ regCalls = 0

NextLatest ==
    \/ \E metricId \in {MetricA, MetricC}, reading \in LatestReadings :
            Ingest(RefAB, metricId, reading)
    \/ \E providerIds \in ProviderIdLists, filter \in PermissionFilters,
            entity \in EntityAnswers(RefAB) :
            GetLatest(RefAB, providerIds, filter, entity)

SpecLatest == InitLatest /\ [][NextLatest]_vars

\* the rows inserted in the store specification: two entities, timestamps in
\* any order, MetricA with either status and MetricB
StoreInserts ==
    {<<ref, MetricA, reading, ts>> :
        ref \in {RefAB, RefB},
        reading \in {x \in Readings : x.value # <<>>},
        ts \in 1..MaxTs}
    \cup {<<ref, MetricB, [value |-> <<1>>, status |-> "success", error_message |-> <<>>], ts>> :
        ref \in {RefAB, RefB}, ts \in 1..MaxTs}

Paginations == {<<>>, <<[limit |-> 1, offset |-> 0]>>, <<[limit |-> 1, offset |-> 1]>>}

NextStore ==
    \/ \E i \in StoreInserts : Insert(i[1], i[2], i[3], i[4])
    \/ \E ref \in {RefAB, RefB}, ids \in {{MetricA}, {MetricB}, {MetricA, MetricB}} :
            ReadLatest(ref, ids)
    \/ \E scope \in {{}, {RefAB}}, status \in {"undefined", "error"},
            pagination \in Paginations :
            ReadDetails(scope, status, pagination)

SpecStore == Init /\ [][NextStore]_vars

\* the rows inserted in the aggregation specification: two entities with
\* MetricA rows of every status and of no status, timestamps in any order,
\* and a row of MetricB
AggregateReadings ==
    Readings \cup {[value |-> <<3>>, status |-> "warning", error_message |-> <<>>]}

AggregateInserts ==
    {<<ref, MetricA, reading, ts>> :
        ref \in {RefAB, RefB}, reading \in AggregateReadings, ts \in 1..MaxTs}
    \cup {<<RefAB, MetricB, [value |-> <<1>>, status |-> "success", error_message |-> <<>>], MaxTs>>}

NextAggregate ==
    \/ \E i \in AggregateInserts : Insert(i[1], i[2], i[3], i[4])
    \/ \E scope \in {{RefAB}, {RefB}, {RefAB, RefB}} : ReadAggregate(scope, MetricA)
    \/ ReadAggregate({RefAB, RefB}, MetricB)

SpecAggregate == Init /\ [][NextAggregate]_vars

\* the rows inserted in the cleanup specification: two entities, timestamps
\* in any order
CleanupInserts ==
    {<<ref, MetricA, [value |-> <<1>>, status |-> "success", error_message |-> <<>>], ts>> :
        ref \in {RefAB, RefB}, ts \in 1..MaxTs}

NextCleanup ==
    \/ \E i \in CleanupInserts : Insert(i[1], i[2], i[3], i[4])
    \/ \E olderThan \in 1..(MaxTs + 1) : Cleanup(olderThan)

SpecCleanup == Init /\ [][NextCleanup]_vars

\* appends and reads interleave: two entities, two metrics, timestamps with
\* and without gaps
NextInterleaved ==
    \/ \E ref \in {RefAB, RefB}, metricId \in {MetricA, MetricB},
            ts \in 1..MaxTs :
            AppendValue(ref, metricId,
                        [value |-> <<ts>>, status |-> "success", error_message |-> <<>>], ts)
    \/ \E ref \in {RefAB, RefB}, ids \in {{MetricA}, {MetricA, MetricB}} :
            LatestFor(ref, ids)

SpecInterleaved == Init /\ [][NextInterleaved]_vars

\* the id lists calculated: none, one, several, one id twice, ids of two
\* data sources
CalculateIdLists == {
    <<>>,
    <<MetricA>>,
    <<MetricA, MetricC>>,
    <<MetricC, MetricD, MetricA>>,
    <<MetricA, MetricA>>,
    <<JiraA, MetricB>>
}

NextCalculate ==
    \/ \E p \in Providers : Register(p)
    \/ \E providerIds \in CalculateIdLists,
            throwing \in SUBSET {"openPrs", "files", "issues"} :
            Calculate(providerIds, throwing)

SpecCalculate == Init /\ [][NextCalculate]_vars

\* the pages a catalog may hold: no entity, one, two of different kinds
CatalogPages ==
    {[i \in 1..Len(refs) |-> CatalogEntity(refs[i])] :
        refs \in {<<>>, <<RefAB>>, <<RefB, RefC>>, <<RefC, RefAB>>}}

\* the catalogs: one page up to MaxPages pages
Catalogs == UNION {[1..n -> CatalogPages] : n \in 1..MaxPages}

NextAuthorized ==
    \/ \E pages \in Catalogs : StartAuthorized(pages)
    \/ QueryPage

\* the event loop runs the continuation of every answered query
SpecAuthorized == Init /\ [][NextAuthorized]_vars /\ WF_vars(QueryPage)

\* the entity lists of the aggregation requests: none, one, two
AggregatedRefLists == {<<>>, <<RefAB>>, <<RefB, RefAB>>}

NextAggregated ==
    \/ \E ref \in {RefAB, RefB}, reading \in AggregateReadings :
            Ingest(ref, MetricA, reading)
    \/ \E entityRefs \in AggregatedRefLists, metricId \in {MetricA, MetricB} :
            GetAggregated(entityRefs, metricId)

SpecAggregated == InitServing /\ [][NextAggregated]_vars

-----------------------------------------------------------------------------
(* Drill-down claims (SpecDrill)                                           *)

InSession == resp # NoResp
Query == resp.query[1]
Catalog == resp.catalog[1]

\* the entities of all pages of the session, in page order
SessionEntities == Concat([p \in 1..Len(resp.pages) |-> resp.pages[p].entities])

\* the latest rows of the drilled metric that pass the session's entityRefs,
\* status, kind and owner filters
SessionStoreRows ==
    DrillDownRows(metricValues, Query.filter.entityRefs, MetricA,
                  Query.filter.status, Query.filter.kind, Query.filter.owner)

\* C1: whenever the catalog batch lookup throws, the returned entities list is
\* empty, whatever number of rows the store returned for the filters.
C1_EmptyWhenCatalogThrows ==
    (InSession /\ Catalog.throws)
        => \A p \in 1..Len(resp.pages) : resp.pages[p].entities = <<>>

\* C2: a store row whose entity ref the catalog batch response did not resolve
\* never appears in the returned entities.
C2_UnresolvedRefsDropped ==
    (InSession /\ ~Catalog.throws)
        => \A i \in 1..Len(SessionEntities) :
                SessionEntities[i].entityRef \notin Catalog.gone

\* C3: for unchanged store content and a fixed query, the pages 1..totalPages
\* report one total, their row counts sum to it, and no entity is on two pages.
C3_PagesPartitionTotal ==
    InSession =>
        LET total == resp.pages[1].pagination.total IN
        /\ \A p \in 1..Len(resp.pages) :
                /\ resp.pages[p].pagination.total = total
                /\ resp.pages[p].pagination.page = p
        /\ Len(SessionEntities) = total
        /\ \A i, j \in 1..Len(SessionEntities) :
                i # j => SessionEntities[i].entityRef # SessionEntities[j].entityRef

C3_Witness ==
    /\ InSession
    /\ Len(resp.pages) = 3
    /\ \A p \in 1..3 : Len(resp.pages[p].entities) = 1

\* C4: the pages concatenated in page order are ordered by the requested sort
\* key and direction over the whole filtered set (rows without a value are
\* left to C5).
C4_PagesGloballySorted ==
    InSession =>
        LET by == IF Query.sortBy # "undefined" THEN Query.sortBy ELSE "timestamp"
            order == IF Query.sortBy # "undefined" THEN Query.sortOrder ELSE "desc"
            keyOf(e) == [key |-> SortKey(e, by)]
        IN  \A i, j \in 1..Len(SessionEntities) :
                (/\ i < j
                 /\ SessionEntities[i].metricValue # <<>>
                 /\ SessionEntities[j].metricValue # <<>>)
                => ~KeyBefore(keyOf(SessionEntities[j]), keyOf(SessionEntities[i]), order)

\* C5: sorted by metricValue, a response lists every row with a null value
\* after every row with a non-null value, for asc and for desc.
C5_NullValuesLast ==
    (InSession /\ Query.sortBy = "metricValue")
        => \A p \in 1..Len(resp.pages) :
            LET es == resp.pages[p].entities IN
            \A i, j \in 1..Len(es) :
                (es[i].metricValue = <<>> /\ es[j].metricValue # <<>>) => j < i

\* C7: the entityName filter keeps exactly the latest rows whose full entity
\* ref contains the search term, case-insensitively, and total counts them
\* (with a catalog that resolves every ref).
C7_EntityNameMatchesRef ==
    (InSession /\ Query.filter.entityName # <<>>
        /\ ~Catalog.throws /\ Catalog.gone = {})
        => LET term == toLowerCase(Query.filter.entityName)
               expected == {SessionStoreRows[i].catalog_entity_ref :
                                i \in {k \in 1..Len(SessionStoreRows) :
                                    includes(toLowerCase(SessionStoreRows[k].catalog_entity_ref), term)}}
           IN  /\ {SessionEntities[i].entityRef : i \in 1..Len(SessionEntities)} = expected
               /\ resp.pages[1].pagination.total = Cardinality(expected)

-----------------------------------------------------------------------------
(* Store claims (SpecStore)                                                *)

\* the rows of the table for an entity and a metric
RowsOf(ref, metricId) ==
    {metricValues[i] : i \in {k \in 1..Len(metricValues) :
        /\ metricValues[k].catalog_entity_ref = ref
        /\ metricValues[k].metric_id = metricId}}

\* the rows of an entity and a metric that no row of them is newer than
NewestOf(ref, metricId) ==
    {r \in RowsOf(ref, metricId) :
        \A x \in RowsOf(ref, metricId) : x.timestamp <= r.timestamp}

\* C6: in a drill-down query only the row with the maximum timestamp of each
\* entity is filtered, returned and counted; an older row never appears and is
\* never counted, also when it matches the filters and the latest row does not.
C6_OnlyLatestRowPerEntity ==
    storeRead.op = "details" =>
        LET rows == storeRead.result.rows
            inScope(ref) == storeRead.entityRefs = {} \/ ref \in storeRead.entityRefs
            passes(r) == storeRead.status = "undefined" \/ r.status = storeRead.status
            some == {ref \in EntityRefs : inScope(ref)
                        /\ \E r \in NewestOf(ref, MetricA) : passes(r)}
            every == {ref \in EntityRefs : inScope(ref)
                        /\ NewestOf(ref, MetricA) # {}
                        /\ \A r \in NewestOf(ref, MetricA) : passes(r)}
        IN  /\ \A i \in 1..Len(rows) :
                /\ rows[i] \in NewestOf(rows[i].catalog_entity_ref, MetricA)
                /\ passes(rows[i])
                /\ inScope(rows[i].catalog_entity_ref)
            /\ \A i, j \in 1..Len(rows) :
                i # j => rows[i].catalog_entity_ref # rows[j].catalog_entity_ref
            /\ Cardinality(every) <= storeRead.result.total
            /\ storeRead.result.total <= Cardinality(some)
            /\ storeRead.pagination = <<>> => Len(rows) = storeRead.result.total

\* an entity whose older row has status error and whose latest row has not,
\* queried for status error: the entity is neither returned nor counted
C6_Witness ==
    /\ storeRead.op = "details"
    /\ storeRead.status = "error"
    /\ storeRead.entityRefs = {}
    /\ storeRead.result.total = 0
    /\ \E r \in RowsOf(RefAB, MetricA) :
            r.status = "error" /\ r \notin NewestOf(RefAB, MetricA)

\* C8: latestFor(entity, ids) returns, for each requested id with a row for the
\* entity, exactly one row, the one with the maximum timestamp whatever the
\* insertion order; an id without rows is absent.
C8_LatestForReturnsNewest ==
    storeRead.op = "latest" =>
        LET rows == storeRead.rows
            of(id) == {i \in 1..Len(rows) : rows[i].metric_id = id}
        IN  /\ \A i \in 1..Len(rows) :
                /\ rows[i].metric_id \in storeRead.metricIds
                /\ rows[i].catalog_entity_ref = storeRead.entityRef
            /\ \A id \in storeRead.metricIds :
                IF RowsOf(storeRead.entityRef, id) = {}
                THEN of(id) = {}
                ELSE /\ Cardinality(of(id)) = 1
                     /\ \A i \in of(id) : rows[i] \in NewestOf(storeRead.entityRef, id)

\* the newest row was inserted first, an older one after it, and a requested
\* id has no row
C8_Witness ==
    /\ storeRead.op = "latest"
    /\ storeRead.metricIds = {MetricA, MetricB}
    /\ RowsOf(storeRead.entityRef, MetricB) = {}
    /\ Len(storeRead.rows) = 1
    /\ \E x \in RowsOf(storeRead.entityRef, MetricA) :
            x.id > storeRead.rows[1].id /\ x.timestamp < storeRead.rows[1].timestamp

\* C20: aggregate(entityRefs, metricId) counts only the latest row of each
\* entity of entityRefs that has rows for the metric: total is the number of
\* those entities, success, warning and error are the numbers of them whose
\* latest row has that status, maxTimestamp is the greatest timestamp of
\* their rows; other entities, other metrics and older rows count nothing.
C20_AggregateCountsLatestRows ==
    storeRead.op = "aggregate" =>
        LET m == storeRead.metricId
            withRows == {ref \in storeRead.entityRefs : RowsOf(ref, m) # {}}
            every(s) == {ref \in withRows : \A r \in NewestOf(ref, m) : r.status = s}
            some(s) == {ref \in withRows : \E r \in NewestOf(ref, m) : r.status = s}
            stamps == {r.timestamp : r \in UNION {RowsOf(ref, m) : ref \in withRows}}
        IN  IF withRows = {} THEN storeRead.result = <<>>
            ELSE /\ storeRead.result # <<>>
                 /\ LET agg == storeRead.result[1]
                        count(s) == CASE s = "success" -> agg.success
                                      [] s = "warning" -> agg.warning
                                      [] s = "error" -> agg.error
                    IN  /\ agg.metric_id = m
                        /\ agg.total = Cardinality(withRows)
                        /\ \A s \in {"success", "warning", "error"} :
                                /\ Cardinality(every(s)) <= count(s)
                                /\ count(s) <= Cardinality(some(s))
                        /\ agg.success + agg.warning + agg.error <= agg.total
                        /\ agg.max_timestamp \in stamps
                        /\ \A t \in stamps : t <= agg.max_timestamp

\* aggregated over one entity whose older row (inserted last) has status
\* error and whose latest row has status success, while another entity and
\* another metric have rows too
C20_Witness ==
    /\ storeRead.op = "aggregate"
    /\ storeRead.entityRefs = {RefAB}
    /\ storeRead.metricId = MetricA
    /\ RowsOf(RefB, MetricA) # {}
    /\ storeRead.result # <<>>
    /\ storeRead.result[1].total = 1
    /\ storeRead.result[1].success = 1
    /\ storeRead.result[1].error = 0
    /\ \E r \in RowsOf(RefAB, MetricA) :
            /\ r.status = "error"
            /\ r \notin NewestOf(RefAB, MetricA)
            /\ \A x \in RowsOf(RefAB, MetricA) : x.id <= r.id

-----------------------------------------------------------------------------
(* Registry claims (SpecRegistry)                                          *)

\* the step is a register call
IsRegisterStep == regCalls' = regCalls + 1

\* the metric ids the provider of the last register call emits
CalledIds(result) == getMetricIds(ProviderNamed(result.provider))

\* every id registered before the step resolves after it as before
ResolutionKept ==
    \A id \in MapKeys(metricProviders) :
        /\ getProvider(metricProviders', id) = getProvider(metricProviders, id)
        /\ getMetric(metricProviders', id) = getMetric(metricProviders, id)

\* C9: once a metric id is registered, every later register call by a provider
\* that emits the same id fails with ConflictError at that id, and the id keeps
\* resolving to the provider that registered it first.
C9_DuplicateFailsWithConflict ==
    [][IsRegisterStep =>
        /\ ResolutionKept
        /\ \A k \in 1..Len(CalledIds(regResult')) :
            MapHas(metricProviders, CalledIds(regResult')[k]) =>
                /\ regResult'.error = "ConflictError"
                /\ regResult'.index = k]_vars

\* C9 as amended: such a call fails at that id or at an earlier one; failing at
\* that id it fails with ConflictError when the id passes the definition, type
\* and format checks; the id keeps resolving to its first provider.
C9_DuplicateNeverRegistered ==
    [][IsRegisterStep =>
        /\ ResolutionKept
        /\ \A k \in 1..Len(CalledIds(regResult')) :
            MapHas(metricProviders, CalledIds(regResult')[k]) =>
                /\ regResult'.error # "none"
                /\ regResult'.index \in 1..k
                /\ (/\ regResult'.index = k
                    /\ FailingCheck(<<>>, ProviderNamed(regResult'.provider),
                                    CalledIds(regResult')[k]) = 0)
                   => regResult'.error = "ConflictError"]_vars

\* the batch provider clash registered its first id and failed with
\* ConflictError at its second, which openPrs still owns
C9_Witness ==
    /\ regResult.provider = "clash"
    /\ regResult.error = "ConflictError"
    /\ regResult.index = 2
    /\ MapHas(metricProviders, MetricD)
    /\ getProvider(metricProviders, MetricA) = <<ProviderNamed("openPrs")>>

\* the provider has a definition of the id with the type it declares
HasTypedDefinition(p, id) ==
    \E i \in 1..Len(getMetrics(p)) :
        getMetrics(p)[i].id = id /\ getMetrics(p)[i].type = p.metricType

WellFormedId(p, id) ==
    /\ Len(id) > Len(p.datasourceId) + 1
    /\ SubSeq(id, 1, Len(p.datasourceId)) = p.datasourceId
    /\ id[Len(p.datasourceId) + 1] = "."

\* C11: every metric id the registry holds is its provider's data source id,
\* '.' and a non-empty suffix; a register call with an id that lacks the
\* prefix or is the bare prefix fails, and the id is not registered for that
\* provider.
C11_RegisteredIdsHaveDatasourcePrefix ==
    /\ \A id \in MapKeys(metricProviders) :
            WellFormedId(ProviderNamed(MapGet(metricProviders, id)), id)
    /\ regResult.provider # "none" =>
            \A k \in 1..Len(CalledIds(regResult)) :
                ~WellFormedId(ProviderNamed(regResult.provider), CalledIds(regResult)[k])
                    => /\ regResult.error # "none"
                       /\ regResult.index \in 1..k
                       /\ MapHas(metricProviders, CalledIds(regResult)[k])
                            => MapGet(metricProviders, CalledIds(regResult)[k])
                                    # regResult.provider

\* the provider whose id is the bare prefix failed the format check and the
\* bare prefix is not registered
C11_Witness ==
    /\ regResult.provider = "bare"
    /\ regResult.error # "none"
    /\ regResult.check = 3
    /\ ~MapHas(metricProviders, BarePrefix)
    /\ metricProviders # <<>>

\* what is wrong with the id a failing register call stopped at, seen from the
\* provider alone
NoDefinition(p, id) == \A i \in 1..Len(getMetrics(p)) : getMetrics(p)[i].id # id
TypeDiffers(p, id) ==
    /\ ~NoDefinition(p, id)
    /\ LET first == CHOOSE i \in 1..Len(getMetrics(p)) :
                        /\ getMetrics(p)[i].id = id
                        /\ \A j \in 1..(i - 1) : getMetrics(p)[j].id # id
       IN  getMetrics(p)[first].type # p.metricType
Malformed(p, id) == ~WellFormedId(p, id)

\* the error kinds of a register step: validation failures are of kind
\* validation, a duplicate id is a ConflictError
RegisterErrorKinds(validation) ==
    IsRegisterStep =>
        LET p == ProviderNamed(regResult'.provider)
            ids == getMetricIds(p)
            k == regResult'.index
        IN  /\ (\A j \in 1..Len(ids) :
                    /\ ~NoDefinition(p, ids[j]) /\ ~TypeDiffers(p, ids[j])
                    /\ ~Malformed(p, ids[j])
                    /\ ~MapHas(metricProviders, ids[j])
                    /\ \A i \in 1..(j - 1) : ids[i] # ids[j])
                => regResult'.error = "none"
            /\ regResult'.error # "none" =>
                /\ k \in 1..Len(ids)
                /\ IF NoDefinition(p, ids[k]) \/ TypeDiffers(p, ids[k]) \/ Malformed(p, ids[k])
                   THEN regResult'.error = validation
                   ELSE /\ regResult'.error = "ConflictError"
                        /\ \/ MapHas(metricProviders, ids[k])
                           \/ \E i \in 1..(k - 1) : ids[i] = ids[k]

IdState(mp, idx, id) ==
    [provider |-> IF MapHas(mp, id) THEN <<MapGet(mp, id)>> ELSE <<>>,
     datasources |-> {idx[i].ds : i \in {n \in 1..Len(idx) : id \in Range(idx[n].ids)}}]

AllIds == {MetricA, MetricB, MetricC, MetricD, BarePrefix, JiraA}

\* C13: when a register call fails at its k-th metric id, the ids before k are
\* registered for the provider in the id index and in the data-source index,
\* and nothing the registry holds for any other id (the k-th, the later ones,
\* the ids of other providers) is changed by the call.
C13_PartialRegistration ==
    [][(IsRegisterStep /\ regResult'.error # "none") =>
        LET p == ProviderNamed(regResult'.provider)
            ids == getMetricIds(p)
            k == regResult'.index
            before == {ids[j] : j \in 1..(k - 1)}
        IN  /\ \A id \in before :
                IdState(metricProviders', datasourceIndex', id)
                    = [provider |-> <<p.name>>, datasources |-> {p.datasourceId}]
            /\ \A id \in AllIds \ before :
                IdState(metricProviders', datasourceIndex', id)
                    = IdState(metricProviders, datasourceIndex, id)
            /\ MapKeys(metricProviders') = MapKeys(metricProviders) \cup before]_vars

\* undefinedId registered its first id in both indexes and failed at its
\* second, which is in neither
C13_Witness ==
    /\ regResult.provider = "undefinedId"
    /\ regResult.index = 2
    /\ IdState(metricProviders, datasourceIndex, MetricD)
            = [provider |-> <<"undefinedId">>, datasources |-> {Github}]
    /\ IdState(metricProviders, datasourceIndex, MetricC)
            = [provider |-> <<>>, datasources |-> {}]

\* the number of places of s that hold x
Occurrences(s, x) == Cardinality({i \in 1..Len(s) : s[i] = x})

\* the provider instances that are registered under some metric id
RegisteredProviders == {ProviderNamed(metricProviders[i].provider) : i \in 1..Len(metricProviders)}

\* C14: listProviders() returns each registered provider instance exactly
\* once, also when it is registered under more than one metric id.
C14_ListProvidersOncePerProvider ==
    \A p \in RegisteredProviders : Occurrences(listProviders(metricProviders), p) = 1

\* the sum of the numbers of metrics of a set of providers
RECURSIVE MetricCount(_)
MetricCount(ps) ==
    IF ps = {} THEN 0
    ELSE LET p == CHOOSE x \in ps : TRUE
         IN  Len(getMetrics(p)) + MetricCount(ps \ {p})

\* the metric list of every provider of ps is in list once and nothing else is
HoldsEachListOnce(list, ps) ==
    /\ Len(list) = MetricCount(ps)
    /\ \A p \in ps : \A i \in 1..Len(getMetrics(p)) :
            Occurrences(list, getMetrics(p)[i]) = 1

\* the providers registered under an id the data-source index lists for ds
ProvidersOfDatasource(ds) ==
    {ProviderNamed(metricProviders[i].provider) :
        i \in {n \in 1..Len(metricProviders) :
            \E d \in 1..Len(datasourceIndex) :
                /\ datasourceIndex[d].ds = ds
                /\ metricProviders[n].id \in Range(datasourceIndex[d].ids)}}

\* C15: listMetrics() without ids and listMetricsByDatasource(ds) hold the
\* metric list of each registered provider (of the data source) exactly once,
\* however many ids the provider registered.
C15_ListMetricsOncePerProvider ==
    /\ HoldsEachListOnce(listMetrics(metricProviders, <<>>), RegisteredProviders)
    /\ \A ds \in {Github, Jira} :
        HoldsEachListOnce(listMetricsByDatasource(metricProviders, datasourceIndex, ds),
                          ProvidersOfDatasource(ds))

\* the batch provider files is registered under two ids, next to a provider of
\* another data source
C15_Witness ==
    /\ MapHas(metricProviders, MetricB) /\ MapHas(metricProviders, MetricC)
    /\ MapGet(metricProviders, MetricB) = "files"
    /\ MapGet(metricProviders, MetricC) = "files"
    /\ MapHas(metricProviders, JiraA)
    /\ Len(listMetrics(metricProviders, <<>>)) = 3

-----------------------------------------------------------------------------
(* Latest-metrics claims (SpecLatest)                                      *)

LatestCalled == latestMetrics # NoLatest
LatestServed == LatestCalled /\ latestMetrics.entity # <<>>

\* the provider instance that owns the metric id of a row
OwnerOf(row) == ProviderNamed(MapGet(metricProviders, row.metric_id))

\* the threshold override of the entity for the row's provider is malformed
MergeThrows(row) == OwnerOf(row).name \in latestMetrics.entity[1].malformed

\* nothing is wrong with the row: it has a value, no error message, and the
\* thresholds of its provider merge
Healthy(row) == row.value # <<>> /\ row.error_message = <<>> /\ ~MergeThrows(row)

\* the requested metric ids for which the store holds a row of the entity
IdsWithRows ==
    {id \in Range(latestMetrics.result.requested) : RowsOf(latestMetrics.entityRef, id) # {}}

\* C16: for an entity the catalog knows, getLatestEntityMetrics does not fail
\* and returns one result per row read; a row with nothing wrong has a result
\* with status success and threshold status success whatever is wrong with the
\* other rows, and what is wrong with a row is an error in its own result.
C16_FailuresStayInOwnResult ==
    LatestServed =>
        LET rows == latestMetrics.result.rows
            results == latestMetrics.result.results
        IN  /\ latestMetrics.result.error = "none"
            /\ Len(results) = Len(rows)
            /\ Len(rows) = Cardinality(IdsWithRows)
            /\ \A i \in 1..Len(rows) :
                /\ results[i].value = rows[i].value
                /\ results[i].timestamp = rows[i].timestamp
                /\ results[i].thresholdResult.evaluation = rows[i].status
                /\ IF Healthy(rows[i])
                   THEN /\ results[i].status = "success"
                        /\ results[i].error = <<>>
                        /\ results[i].thresholdResult.status = "success"
                        /\ results[i].thresholdResult.error = <<>>
                        /\ results[i].thresholdResult.definition # <<>>
                   ELSE /\ results[i].thresholdResult.status = "error"
                        /\ results[i].thresholdResult.error # <<>>

\* two rows were read: the first has a value and thresholds that merge, the
\* second has no value and a provider whose thresholds fail to merge
C16_Witness ==
    /\ LatestServed
    /\ Len(latestMetrics.result.rows) = 2
    /\ Healthy(latestMetrics.result.rows[1])
    /\ latestMetrics.result.rows[2].value = <<>>
    /\ MergeThrows(latestMetrics.result.rows[2])
    /\ Len(latestMetrics.result.results) = 2

\* C17: when the thresholds merge, a null value gives threshold status error
\* with the missing-value message also when an error message is stored;
\* otherwise a stored error message gives threshold status error with that
\* message; otherwise the threshold status is success without error.
C17_ThresholdErrorPrecedence ==
    LatestServed =>
        \A i \in 1..Len(latestMetrics.result.rows) :
            LET row == latestMetrics.result.rows[i]
                tr == latestMetrics.result.results[i].thresholdResult
            IN  ~MergeThrows(row) =>
                    IF row.value = <<>>
                    THEN tr.status = "error" /\ tr.error = <<MissingValueMessage>>
                    ELSE IF row.error_message # <<>>
                    THEN tr.status = "error" /\ tr.error = row.error_message
                    ELSE tr.status = "success" /\ tr.error = <<>>

\* a row without value and with a stored error message, whose thresholds merge
C17_Witness ==
    /\ LatestServed
    /\ \E i \in 1..Len(latestMetrics.result.rows) :
        /\ latestMetrics.result.rows[i].value = <<>>
        /\ latestMetrics.result.rows[i].error_message # <<>>
        /\ ~MergeThrows(latestMetrics.result.rows[i])
        /\ latestMetrics.result.results[i].thresholdResult.error = <<MissingValueMessage>>

\* C18: a row's result has status error, with the stored message as its
\* error, exactly when the row has an error message and no value; every
\* other row has status success and no error of its own.
C18_StatusErrorIffMessageAndNoValue ==
    LatestServed =>
        \A i \in 1..Len(latestMetrics.result.rows) :
            LET row == latestMetrics.result.rows[i]
                result == latestMetrics.result.results[i]
            IN  IF row.error_message # <<>> /\ row.value = <<>>
                THEN result.status = "error" /\ result.error = row.error_message
                ELSE result.status = "success" /\ result.error = <<>>

\* one row with a value and an error message and one row without either:
\* both have status success
C18_Witness ==
    /\ LatestServed
    /\ Len(latestMetrics.result.rows) = 2
    /\ \E i, j \in 1..2 :
        /\ latestMetrics.result.rows[i].value # <<>>
        /\ latestMetrics.result.rows[i].error_message # <<>>
        /\ latestMetrics.result.rows[j].value = <<>>
        /\ latestMetrics.result.rows[j].error_message = <<>>
        /\ latestMetrics.result.results[i].status = "success"
        /\ latestMetrics.result.results[j].status = "success"

\* C19: getLatestEntityMetrics fails with NotFoundError when the catalog has
\* no entity for the ref, and then it has called neither the registry nor
\* the store; with an entity it does not fail so.
C19_NotFoundBeforeAnyRead ==
    LatestCalled =>
        IF latestMetrics.entity = <<>>
        THEN /\ latestMetrics.result.error = "NotFoundError"
             /\ latestMetrics.result.calls = <<"catalog.getEntityByRef">>
             /\ latestMetrics.result.rows = <<>>
             /\ latestMetrics.result.results = <<>>
        ELSE latestMetrics.result.error # "NotFoundError"

\* the store holds rows of the entity's metrics and the catalog has no entity
C19_Witness ==
    /\ LatestCalled
    /\ latestMetrics.entity = <<>>
    /\ latestMetrics.providerIds = <<>>
    /\ latestMetrics.filter = <<>>
    /\ RowsOf(latestMetrics.entityRef, MetricA) # {}
    /\ latestMetrics.result.error = "NotFoundError"

-----------------------------------------------------------------------------
(* Aggregation request claims (SpecAggregated)                             *)

AggregatedCalled == aggregated # NoAggregated

\* the aggregate of no row at all
IsZeroAggregate(a) ==
    /\ a.total = 0
    /\ Len(a.values) = 3
    /\ \A i \in 1..3 : a.values[i].count = 0
    /\ <<a.values[1].name, a.values[2].name, a.values[3].name>>
            = <<"success", "warning", "error">>

\* C21: getAggregatedMetricByEntityRefs with an empty entityRefs list returns
\* an aggregate (not nothing) whose total and three status counts are 0, and
\* it issues no read to the store, whatever rows the store holds
C21_EmptyRefsZeroAggregateNoRead ==
    (AggregatedCalled /\ aggregated.entityRefs = <<>>)
    => /\ IsZeroAggregate(aggregated.result.result)
       /\ aggregated.result.calls = <<>>

\* an empty list was aggregated for MetricA while the store holds MetricA rows
C21_Witness ==
    /\ AggregatedCalled
    /\ aggregated.entityRefs = <<>>
    /\ aggregated.metricId = MetricA
    /\ \E i \in 1..Len(metricValues) :
            metricValues[i].metric_id = MetricA /\ metricValues[i].status = "error"
    /\ aggregated.result.result.timestamp = clock

-----------------------------------------------------------------------------
(* Store claims, continued (SpecStore)                                     *)

\* the entities with rows for MetricA whose newest rows all pass the status
\* filter of the last drill-down read
MatchingEntities ==
    {ref \in EntityRefs :
        /\ NewestOf(ref, MetricA) # {}
        /\ \A r \in NewestOf(ref, MetricA) :
                storeRead.status = "undefined" \/ r.status = storeRead.status}

\* C22: a drill-down query with an empty entityRefs list applies no entity-ref
\* restriction: every entity whose latest row for the metric matches is
\* counted, and returned when all rows are fetched, so rows come back whenever
\* matching rows exist
C22_EmptyRefsMeansEveryEntity ==
    (storeRead.op = "details" /\ storeRead.entityRefs = {}) =>
        LET rows == storeRead.result.rows
            total == storeRead.result.total
        IN  /\ Cardinality(MatchingEntities) <= total
            /\ storeRead.pagination = <<>> =>
                    MatchingEntities \subseteq
                        {rows[i].catalog_entity_ref : i \in 1..Len(rows)}
            /\ (storeRead.pagination # <<>> /\ storeRead.pagination[1].offset < total)
                    => rows # <<>>

\* an unscoped read of every row returned the latest rows of two entities
C22_Witness ==
    /\ storeRead.op = "details"
    /\ storeRead.entityRefs = {}
    /\ storeRead.pagination = <<>>
    /\ {storeRead.result.rows[i].catalog_entity_ref :
            i \in 1..Len(storeRead.result.rows)} = {RefAB, RefB}
    /\ Len(metricValues) = 3

-----------------------------------------------------------------------------
(* Retention claim (SpecCleanup)                                           *)

\* C23: cleanupExpired(cutoff) removes exactly the rows whose timestamp is
\* strictly older than the cutoff, leaves every other row (one stamped with
\* the cutoff too) unchanged and in place, and returns the number of rows it
\* removed
C23_CleanupRemovesStrictlyOlder ==
    storeRead.op = "cleanup" =>
        LET before == storeRead.before
            expired == {i \in 1..Len(before) : before[i].timestamp < storeRead.olderThan}
        IN  /\ Range(metricValues) = {before[i] : i \in (1..Len(before)) \ expired}
            /\ Len(metricValues) = Len(before) - Cardinality(expired)
            /\ \A i, j \in 1..Len(metricValues) :
                    i < j => metricValues[i].id < metricValues[j].id
            /\ storeRead.deleted = Cardinality(expired)

\* a cleanup removed one older row and kept a row stamped with the cutoff
C23_Witness ==
    /\ storeRead.op = "cleanup"
    /\ storeRead.deleted = 1
    /\ Len(storeRead.before) = 3
    /\ Len(metricValues) = 2
    /\ \E i \in 1..Len(metricValues) :
            metricValues[i].timestamp = storeRead.olderThan

-----------------------------------------------------------------------------
(* Interleaved appends and reads (SpecInterleaved)                         *)

\* the rows of an entity and a metric that were appended before the last read
RowsBeforeRead(ref, metricId) ==
    {r \in RowsOf(ref, metricId) : r.id <= storeRead.upTo}

\* C24: however appends and reads interleave, when the timestamps of an
\* entity and a metric increase, a read returns for each requested metric
\* the row with the greatest timestamp among the rows appended before it, and
\* no read returns a row older than one an earlier read returned for the
\* same entity and metric
C24_ReadsSeeNewestAndNeverGoBack ==
    storeRead.op = "latest" =>
        LET rows == storeRead.rows IN
        /\ \A metricId \in storeRead.metricIds :
                LET before == RowsBeforeRead(storeRead.entityRef, metricId)
                    got == {i \in 1..Len(rows) : rows[i].metric_id = metricId}
                IN  IF before = {} THEN got = {}
                    ELSE /\ Cardinality(got) = 1
                         /\ \A i \in got :
                                /\ rows[i] \in before
                                /\ \A r \in before : r.timestamp <= rows[i].timestamp
        /\ \A i \in 1..Len(rows) :
                /\ rows[i].catalog_entity_ref = storeRead.entityRef
                /\ rows[i].metric_id \in storeRead.metricIds
                /\ rows[i].timestamp >=
                        storeRead.earlier[<<rows[i].catalog_entity_ref, rows[i].metric_id>>]

\* a read returned a newer row than an earlier read of the same entity and
\* metric, and a row of another metric was appended after it
C24_Witness ==
    /\ storeRead.op = "latest"
    /\ storeRead.entityRef = RefAB
    /\ storeRead.earlier[<<RefAB, MetricA>>] = 1
    /\ \E i \in 1..Len(storeRead.rows) :
            storeRead.rows[i].metric_id = MetricA /\ storeRead.rows[i].timestamp = 2
    /\ \E r \in RowsOf(RefAB, MetricB) : r.id > storeRead.upTo

-----------------------------------------------------------------------------
(* Calculation claim (SpecCalculate)                                       *)

\* C25: calculateMetrics(ids, entity) does not fail and returns exactly one
\* entry per requested id, in request order: the entry of an id whose
\* calculation succeeded carries its provider's value and no error, the entry
\* of an id that is not registered or whose calculation failed carries an
\* error and no value, whatever happens to the other ids
C25_OneEntryPerIdFailuresIsolated ==
    calculated.called =>
        LET ids == calculated.providerIds
            entries == calculated.result.entries
            succeeds(id) == /\ MapHas(metricProviders, id)
                            /\ MapGet(metricProviders, id) \notin calculated.throwing
        IN  /\ calculated.result.error = "none"
            /\ Len(entries) = Len(ids)
            /\ \A i \in 1..Len(ids) :
                /\ entries[i].providerId = ids[i]
                /\ IF succeeds(ids[i])
                   THEN /\ entries[i].value = <<ValueOf(MapGet(metricProviders, ids[i]))>>
                        /\ entries[i].error = <<>>
                   ELSE /\ entries[i].value = <<>>
                        /\ entries[i].error # <<>>

\* three ids were calculated: the provider of the first failed, the second
\* is not registered, the third succeeded
C25_Witness ==
    /\ calculated.called
    /\ calculated.providerIds = <<MetricC, MetricD, MetricA>>
    /\ calculated.result.entries[1].error = <<"Error">>
    /\ calculated.result.entries[2].error = <<"NotFoundError">>
    /\ calculated.result.entries[3].value = <<ValueOf("openPrs")>>

-----------------------------------------------------------------------------
(* Visible entity refs (SpecAuthorized)                                    *)

\* the refs of the entities of the first n pages of the catalog, in order
RefsOfPages(n) ==
    Concat([k \in 1..n |->
        [i \in 1..Len(authorized.pages[k]) |->
            stringifyEntityRef(authorized.pages[k][i])]])

\* the queries made so far follow the cursors, one per page
FollowsCursors ==
    authorized.pc # "idle" =>
        LET queries == authorized.queries
            responses == authorized.responses
        IN  /\ Len(queries) <= Len(authorized.pages)
            /\ Len(responses) = Len(queries)
            /\ \A i \in 1..Len(queries) :
                /\ queries[i].limit = 50
                /\ queries[i].cursor =
                        (IF i = 1 THEN <<>> ELSE responses[i - 1].nextCursor)
                /\ i < Len(queries) => responses[i].nextCursor # <<>>
            /\ authorized.refs = RefsOfPages(Len(queries))
            /\ authorized.pc = "done" <=>
                    (queries # <<>> /\ responses[Len(responses)].nextCursor = <<>>)
            /\ authorized.pc = "done" =>
                    /\ Len(queries) = Len(authorized.pages)
                    /\ authorized.refs = RefsOfPages(Len(authorized.pages))

\* C26: getAuthorizedEntityRefs queries the catalog with a page limit of 50,
\* passes the nextCursor of each response to the next query, stops at the
\* first response without nextCursor and returns the refs of all items of
\* all fetched pages in page order; for a finite chain of cursors it ends
\* after one query per page
C26_FollowsCursorsToTheEnd ==
    /\ []FollowsCursors
    /\ (authorized.pc = "querying") ~> (authorized.pc = "done")

\* a call over three pages, the second one empty, has ended with the refs of
\* the first and the third page
C26_Witness ==
    /\ authorized.pc = "done"
    /\ Len(authorized.queries) = 3
    /\ authorized.pages[2] = <<>>
    /\ authorized.refs = <<RefAB, RefC, RefAB>>

-----------------------------------------------------------------------------
(* Latest-metrics claims, continued (SpecLatest)                           *)

\* C27: every result of getLatestEntityMetrics carries the id and the
\* metadata of the metric whose id is the metric_id of the row it was built
\* from, also when the row's provider is a batch provider of several metrics
C27_ResultCarriesMetricOfRow ==
    (LatestServed /\ latestMetrics.result.error = "none") =>
        LET rows == latestMetrics.result.rows
            results == latestMetrics.result.results
        IN  \A i \in 1..Len(results) :
                LET metric == getMetric(metricProviders, rows[i].metric_id)[1]
                IN  /\ results[i].id = rows[i].metric_id
                    /\ results[i].metadata = <<metric.title, metric.type>>

\* the metric id passes the permission filter of the last call and is in its
\* requested subset, if it named one
Permitted(id) ==
    /\ matches([id |-> id], latestMetrics.filter)
    /\ latestMetrics.providerIds = <<>> \/ id \in Range(latestMetrics.providerIds)

\* C28: getLatestEntityMetrics reads from the store, and returns results for,
\* only metric ids that pass the caller's permission filter and are in the
\* requested subset; no result is returned for a metric the filter rejects
C28_OnlyPermittedMetrics ==
    LatestServed =>
        LET r == latestMetrics.result IN
        /\ \A id \in Range(r.requested) : Permitted(id)
        /\ \A i \in 1..Len(r.rows) : Permitted(r.rows[i].metric_id)
        /\ \A i \in 1..Len(r.results) : Permitted(r.results[i].id)

-----------------------------------------------------------------------------
(* Registry claims, continued (SpecRegistry)                               *)

\* C29: after any sequence of register calls, successful or failed, the
\* data-source index and the id index agree: a metric id is in the set of
\* data source ds exactly when it is registered to a provider whose data
\* source id is ds, and no id is in the sets of two data sources
C29_IndexesAgree ==
    /\ \A id \in AllIds :
            LET st == IdState(metricProviders, datasourceIndex, id) IN
            st.datasources = (IF st.provider = <<>> THEN {}
                              ELSE {ProviderNamed(st.provider[1]).datasourceId})
    /\ \A i, j \in 1..Len(datasourceIndex) :
            i # j => /\ datasourceIndex[i].ds # datasourceIndex[j].ds
                     /\ Range(datasourceIndex[i].ids) \cap Range(datasourceIndex[j].ids) = {}
    /\ \A i \in 1..Len(datasourceIndex) :
            /\ Cardinality(Range(datasourceIndex[i].ids)) = Len(datasourceIndex[i].ids)
            /\ Range(datasourceIndex[i].ids) \subseteq MapKeys(metricProviders)

\* after a failed call the index holds two data sources, one of them with
\* the ids of several providers
C29_Witness ==
    /\ regResult.error # "none"
    /\ regResult.index > 1
    /\ Len(datasourceIndex) = 2
    /\ \E i \in 1..Len(datasourceIndex) :
            Cardinality({MapGet(metricProviders, id) :
                            id \in Range(datasourceIndex[i].ids)}) = 2

\* C30: after any sequence of register calls, successful or failed, every
\* metric of listMetrics() without ids has a registered id, and getProvider of
\* that id returns the provider whose metric list contributed the metric; an
\* id that failed validation or that its provider does not emit is not listed
C30_ListedMetricsAreRegistered ==
    LET listed == listMetrics(metricProviders, <<>>) IN
    \A i \in 1..Len(listed) :
        /\ MapHas(metricProviders, listed[i].id)
        /\ \E p \in RegisteredProviders :
                /\ listed[i] \in Range(getMetrics(p))
                /\ getProvider(metricProviders, listed[i].id) = <<p>>
                /\ listed[i].id \in Range(getMetricIds(p))

====
